---- MODULE Spec2Model ----
(***************************************************************************)
(* A model of gathuk: the Gathuk[T] configuration manager (gathuk.go), its *)
(* default codec registry, the line-format (dotenv) codec and the          *)
(* tree-format (json) lexer, parser, serializer and mapper.                *)
(*                                                                         *)
(* Byte strings ([]byte, string) are sequences of one-character strings,   *)
(* so that splitting, trimming, escaping and parsing are computed as the   *)
(* code computes them.                                                     *)
(***************************************************************************)
EXTENDS Integers, Sequences, FiniteSets, TLC

(***************************************************************************)
(* Byte-string helpers (package bytes / strings / unicode).                *)
(***************************************************************************)

\* unicode.IsSpace on the bytes the model uses
IsSpace(c) == c \in {" ", "\t", "\n", "\r"}

RECURSIVE SplitFrom(_, _, _, _)
SplitFrom(s, sep, i, cur) ==
    IF i > Len(s) THEN <<cur>>
    ELSE IF s[i] = sep THEN <<cur>> \o SplitFrom(s, sep, i + 1, <<>>)
    ELSE SplitFrom(s, sep, i + 1, Append(cur, s[i]))

\* bytes.Split(s, sep) for a one-byte separator: the empty input gives one
\* empty piece
Split(s, sep) == SplitFrom(s, sep, 1, <<>>)

RECURSIVE TrimLeft(_)
TrimLeft(s) ==
    IF s # <<>> /\ IsSpace(Head(s)) THEN TrimLeft(Tail(s)) ELSE s

RECURSIVE TrimRight(_)
TrimRight(s) ==
    IF s # <<>> /\ IsSpace(s[Len(s)]) THEN TrimRight(SubSeq(s, 1, Len(s) - 1))
    ELSE s

\* bytes.TrimSpace
TrimSpace(s) == TrimRight(TrimLeft(s))

\* bytes.IndexByte, 1-based; 0 when the byte does not occur (Go: -1)
IndexByte(s, c) ==
    IF \E i \in 1..Len(s) : s[i] = c
    THEN CHOOSE i \in 1..Len(s) : s[i] = c /\ \A j \in 1..(i - 1) : s[j] # c
    ELSE 0

\* bytes.LastIndexByte, 1-based; 0 when the byte does not occur
LastIndexByte(s, c) ==
    IF \E i \in 1..Len(s) : s[i] = c
    THEN CHOOSE i \in 1..Len(s) : s[i] = c /\ \A j \in (i + 1)..Len(s) : s[j] # c
    ELSE 0

LowerLetters ==
    <<"a", "b", "c", "d", "e", "f", "g", "h", "i", "j", "k", "l", "m",
      "n", "o", "p", "q", "r", "s", "t", "u", "v", "w", "x", "y", "z">>

UpperLetters ==
    <<"A", "B", "C", "D", "E", "F", "G", "H", "I", "J", "K", "L", "M",
      "N", "O", "P", "Q", "R", "S", "T", "U", "V", "W", "X", "Y", "Z">>

\* unicode.IsUpper on ASCII
IsUpper(c) == \E i \in 1..Len(UpperLetters) : UpperLetters[i] = c

IsLower(c) == \E i \in 1..Len(LowerLetters) : LowerLetters[i] = c

\* unicode.ToUpper on ASCII
ToUpperCh(c) ==
    IF IsLower(c)
    THEN UpperLetters[CHOOSE i \in 1..Len(LowerLetters) : LowerLetters[i] = c]
    ELSE c

\* unicode.ToLower on ASCII
ToLowerCh(c) ==
    IF IsUpper(c)
    THEN LowerLetters[CHOOSE i \in 1..Len(UpperLetters) : UpperLetters[i] = c]
    ELSE c

\* strings.ToUpper
ToUpper(s) == [i \in 1..Len(s) |-> ToUpperCh(s[i])]

\* strings.ToLower
ToLower(s) == [i \in 1..Len(s) |-> ToLowerCh(s[i])]

RECURSIVE JoinLines(_)
\* the bytes of a file whose lines are ls, separated by newlines
JoinLines(ls) ==
    IF ls = <<>> THEN <<>>
    ELSE IF Len(ls) = 1 THEN ls[1]
    ELSE ls[1] \o <<"\n">> \o JoinLines(Tail(ls))

(***************************************************************************)
(* strconv: ParseInt(s, 0, 64) and ParseBool.                              *)
(***************************************************************************)

Digits == <<"0", "1", "2", "3", "4", "5", "6", "7", "8", "9">>

HexLetters == <<"a", "b", "c", "d", "e", "f">>

\* the value of a digit byte, or 99 for a byte that is no digit (strconv
\* ParseUint: "default: return 0, syntaxError")
DigitVal(c) ==
    IF \E i \in 1..10 : Digits[i] = c
    THEN (CHOOSE i \in 1..10 : Digits[i] = c) - 1
    ELSE IF \E i \in 1..6 : HexLetters[i] = ToLowerCh(c)
    THEN (CHOOSE i \in 1..6 : HexLetters[i] = ToLowerCh(c)) + 9
    ELSE 99

HasBasePrefix(s) ==
    Len(s) >= 2 /\ s[1] = "0" /\ ToLowerCh(s[2]) \in {"b", "o", "x"}

RECURSIVE underscoreScan(_, _, _, _)
\* the loop of strconv.underscoreOK: prev is the class of the previous byte
underscoreScan(s, i, prev, hex) ==
    IF i > Len(s) THEN prev # "_"
    ELSE IF DigitVal(s[i]) <= 9 \/ (hex /\ DigitVal(s[i]) <= 15)
    THEN underscoreScan(s, i + 1, "0", hex)
    ELSE IF s[i] = "_"
    THEN prev = "0" /\ underscoreScan(s, i + 1, "_", hex)
    ELSE prev # "_" /\ underscoreScan(s, i + 1, "!", hex)

\* strconv.underscoreOK
underscoreOK(s0) ==
    LET s1 == IF s0 # <<>> /\ s0[1] \in {"+", "-"} THEN Tail(s0) ELSE s0
    IN IF HasBasePrefix(s1)
       THEN underscoreScan(SubSeq(s1, 3, Len(s1)), 1, "0", ToLowerCh(s1[2]) = "x")
       ELSE underscoreScan(s1, 1, "^", FALSE)

RECURSIVE parseDigits(_, _, _, _)
\* the digit loop of strconv.ParseUint with base 0: underscores are skipped
parseDigits(s, i, base, n) ==
    IF i > Len(s) THEN [ok |-> TRUE, n |-> n]
    ELSE IF s[i] = "_" THEN parseDigits(s, i + 1, base, n)
    ELSE IF DigitVal(s[i]) >= base THEN [ok |-> FALSE, n |-> 0]
    ELSE parseDigits(s, i + 1, base, n * base + DigitVal(s[i]))

\* strconv.ParseUint(s, 0, 64), for values far below 2^63
ParseUint0(s) ==
    IF s = <<>> THEN [ok |-> FALSE, n |-> 0]
    ELSE IF ~underscoreOK(s) THEN [ok |-> FALSE, n |-> 0]
    ELSE IF s[1] = "0"
    THEN IF Len(s) >= 3 /\ ToLowerCh(s[2]) = "b"
         THEN parseDigits(SubSeq(s, 3, Len(s)), 1, 2, 0)
         ELSE IF Len(s) >= 3 /\ ToLowerCh(s[2]) = "o"
         THEN parseDigits(SubSeq(s, 3, Len(s)), 1, 8, 0)
         ELSE IF Len(s) >= 3 /\ ToLowerCh(s[2]) = "x"
         THEN parseDigits(SubSeq(s, 3, Len(s)), 1, 16, 0)
         ELSE parseDigits(Tail(s), 1, 8, 0)
    ELSE parseDigits(s, 1, 10, 0)

\* strconv.ParseInt(s, 0, 64)
ParseInt0(s) ==
    IF s = <<>> THEN [ok |-> FALSE, n |-> 0]
    ELSE LET neg == s[1] = "-"
             body == IF s[1] \in {"+", "-"} THEN Tail(s) ELSE s
             u == ParseUint0(body)
         IN IF ~u.ok THEN u
            ELSE [ok |-> TRUE, n |-> IF neg THEN 0 - u.n ELSE u.n]

BoolTrueWords ==
    { <<"1">>, <<"t">>, <<"T">>, <<"T", "R", "U", "E">>,
      <<"t", "r", "u", "e">>, <<"T", "r", "u", "e">> }

BoolFalseWords ==
    { <<"0">>, <<"f">>, <<"F">>, <<"F", "A", "L", "S", "E">>,
      <<"f", "a", "l", "s", "e">>, <<"F", "a", "l", "s", "e">> }

\* strconv.ParseBool
ParseBool(s) ==
    IF s \in BoolTrueWords THEN [ok |-> TRUE, b |-> TRUE]
    ELSE IF s \in BoolFalseWords THEN [ok |-> TRUE, b |-> FALSE]
    ELSE [ok |-> FALSE, b |-> FALSE]

(***************************************************************************)
(* float64.  A finite float64 is held as its exact decimal value: digits d *)
(* without leading or trailing zeros and the position dp of the decimal    *)
(* point (value 0.d * 10^dp), zero being the empty digit string.  For a    *)
(* value of at most 15 significant digits this is also the shortest form   *)
(* (the digs of strconv) that ParseFloat reads and FormatFloat prints.     *)
(***************************************************************************)

IsDigit(c) == \E i \in 1..10 : Digits[i] = c

RECURSIVE SpanDigits(_, _)
\* the index after the run of digits of s that starts at i
SpanDigits(s, i) ==
    IF i <= Len(s) /\ IsDigit(s[i]) THEN SpanDigits(s, i + 1) ELSE i

RECURSIVE StripLeadingZeros(_)
StripLeadingZeros(d) ==
    IF d # <<>> /\ Head(d) = "0" THEN StripLeadingZeros(Tail(d)) ELSE d

RECURSIVE StripTrailingZeros(_)
StripTrailingZeros(d) ==
    IF d # <<>> /\ d[Len(d)] = "0"
    THEN StripTrailingZeros(SubSeq(d, 1, Len(d) - 1)) ELSE d

RECURSIVE Zeros(_)
Zeros(n) == IF n <= 0 THEN <<>> ELSE <<"0">> \o Zeros(n - 1)

RECURSIVE expValue(_, _, _)
\* the exponent loop of strconv.readFloat: e stops growing at 10000
expValue(s, i, e) ==
    IF i > Len(s) THEN e
    ELSE expValue(s, i + 1, IF e < 10000 THEN e * 10 + DigitVal(s[i]) ELSE e)

RECURSIVE DigitsLess(_, _)
\* a < b for two digit strings of the same length
DigitsLess(a, b) ==
    IF a = <<>> THEN FALSE
    ELSE IF DigitVal(Head(a)) # DigitVal(Head(b))
    THEN DigitVal(Head(a)) < DigitVal(Head(b))
    ELSE DigitsLess(Tail(a), Tail(b))

\* the largest float64 is 1.7976931348623157e308
MaxFloatDigits ==
    <<"1", "7", "9", "7", "6", "9", "3", "1", "3", "4", "8", "6", "2", "3", "1">>

FloatZero == [neg |-> FALSE, d |-> <<>>, dp |-> 0]

\* whether the decimal (d, dp) exceeds the float64 range (strconv: ErrRange)
FloatOverflows(d, dp) ==
    \/ dp > 309
    \/ dp = 309 /\ DigitsLess(MaxFloatDigits,
                              SubSeq(d \o Zeros(Len(MaxFloatDigits)), 1, Len(MaxFloatDigits)))

\* strconv.ParseFloat(s, 64) on decimal input: sign, digits with at most one
\* '.', optional exponent; the whole string must be consumed
ParseFloat(s) ==
    LET bad == [ok |-> FALSE, f |-> FloatZero]
        neg == s # <<>> /\ s[1] = "-"
        i0 == IF s # <<>> /\ s[1] \in {"+", "-"} THEN 2 ELSE 1
        i1 == SpanDigits(s, i0)
        dot == i1 <= Len(s) /\ s[i1] = "."
        i2 == IF dot THEN SpanDigits(s, i1 + 1) ELSE i1
        ip == SubSeq(s, i0, i1 - 1)
        fp == IF dot THEN SubSeq(s, i1 + 1, i2 - 1) ELSE <<>>
        hasExp == i2 <= Len(s) /\ s[i2] \in {"e", "E"}
        i3 == IF hasExp /\ i2 + 1 <= Len(s) /\ s[i2 + 1] \in {"+", "-"}
              THEN i2 + 2 ELSE i2 + 1
        eneg == hasExp /\ i2 + 1 <= Len(s) /\ s[i2 + 1] = "-"
        i4 == IF hasExp THEN SpanDigits(s, i3) ELSE i2
        e0 == IF hasExp THEN expValue(SubSeq(s, i3, i4 - 1), 1, 0) ELSE 0
        e == IF eneg THEN 0 - e0 ELSE e0
        all == ip \o fp
        lead == Len(all) - Len(StripLeadingZeros(all))
        d == StripTrailingZeros(StripLeadingZeros(all))
        dp == IF d = <<>> THEN 0 ELSE Len(ip) - lead + e
    IN IF all = <<>> THEN bad
       ELSE IF hasExp /\ i4 = i3 THEN bad
       ELSE IF i4 # Len(s) + 1 THEN bad
       ELSE IF FloatOverflows(d, dp) THEN bad
       ELSE [ok |-> TRUE, f |-> [neg |-> neg, d |-> d, dp |-> dp]]

RECURSIVE IntToDigits(_)
\* the decimal digits of a natural number
IntToDigits(n) ==
    IF n < 10 THEN <<Digits[n + 1]>>
    ELSE IntToDigits(n \div 10) \o <<Digits[(n % 10) + 1]>>

\* %e of strconv.fmtE with the shortest digits: d[.ddd]e(+|-)dd
fmtE(f) ==
    LET exp == IF f.d = <<>> THEN 0 ELSE f.dp - 1
        first == IF f.d = <<>> THEN <<"0">> ELSE <<f.d[1]>>
        rest == IF Len(f.d) > 1 THEN <<".">> \o Tail(f.d) ELSE <<>>
        mag == IF exp < 0 THEN 0 - exp ELSE exp
        ed == IF mag < 10 THEN <<"0">> \o IntToDigits(mag) ELSE IntToDigits(mag)
    IN (IF f.neg THEN <<"-">> ELSE <<>>) \o first \o rest
       \o <<"e", IF exp < 0 THEN "-" ELSE "+">> \o ed

\* %f of strconv.fmtF with the shortest digits
fmtF(f) ==
    LET nd == Len(f.d)
        int == IF f.dp > 0
               THEN SubSeq(f.d, 1, IF f.dp < nd THEN f.dp ELSE nd) \o Zeros(f.dp - nd)
               ELSE <<"0">>
        frac == IF nd > f.dp
                THEN <<".">> \o Zeros(0 - f.dp)
                     \o SubSeq(f.d, (IF f.dp > 0 THEN f.dp ELSE 0) + 1, nd)
                ELSE <<>>
    IN (IF f.neg THEN <<"-">> ELSE <<>>) \o int \o frac

\* strconv.FormatFloat(f, 'g', -1, 64): %e when the exponent is below -4 or
\* at least 6 (the precision used for the shortest form), %f otherwise
FormatFloat(f) ==
    LET exp == f.dp - 1 IN
    IF exp < -4 \/ exp >= 6 THEN fmtE(f) ELSE fmtF(f)

(***************************************************************************)
(* Integers of 64 bits.  Where the limits of the integer kinds matter an   *)
(* integer is held as sign and decimal magnitude [neg, d] (d without       *)
(* leading zeros, zero being the empty string), so that 2^63 and 2^64 are  *)
(* exact.                                                                  *)
(***************************************************************************)

\* the decimal digits of 2^n for the sizes n of the integer kinds
Pow2(n) ==
    CASE n = 64 -> <<"1", "8", "4", "4", "6", "7", "4", "4", "0", "7",
                     "3", "7", "0", "9", "5", "5", "1", "6", "1", "6">>
      [] n = 63 -> <<"9", "2", "2", "3", "3", "7", "2", "0", "3", "6",
                     "8", "5", "4", "7", "7", "5", "8", "0", "8">>
      [] n = 32 -> <<"4", "2", "9", "4", "9", "6", "7", "2", "9", "6">>
      [] n = 31 -> <<"2", "1", "4", "7", "4", "8", "3", "6", "4", "8">>
      [] OTHER -> IntToDigits(2 ^ n)

\* the digits of 2^n - 1 (a power of two above 1 never ends in 0)
Pow2Minus1(n) ==
    LET d == Pow2(n) IN
    StripLeadingZeros(SubSeq(d, 1, Len(d) - 1) \o <<Digits[DigitVal(d[Len(d)])]>>)

\* a < b for two magnitudes
MagLess(a, b) == Len(a) < Len(b) \/ (Len(a) = Len(b) /\ DigitsLess(a, b))

IntKinds == {"int", "int8", "int16", "int32", "int64"}
UintKinds == {"uint", "uint8", "uint16", "uint32", "uint64"}

\* the size in bits of an integer kind (int and uint are 64 bits wide on the
\* 64-bit platforms)
BitsOf(kind) ==
    CASE kind \in {"int8", "uint8"} -> 8
      [] kind \in {"int16", "uint16"} -> 16
      [] kind \in {"int32", "uint32"} -> 32
      [] OTHER -> 64

\* reflect.Value.OverflowInt for a value of the kind of size bits
OverflowInt(x, bits) ==
    IF x.neg THEN MagLess(Pow2(bits - 1), x.d) ELSE ~MagLess(x.d, Pow2(bits - 1))

\* reflect.Value.OverflowUint
OverflowUint(u, bits) == ~MagLess(u.d, Pow2(bits))

MinInt64 == [neg |-> TRUE, d |-> Pow2(63)]
MaxInt64 == [neg |-> FALSE, d |-> Pow2Minus1(63)]
MaxUint64 == [neg |-> FALSE, d |-> Pow2Minus1(64)]
BigZero == [neg |-> FALSE, d |-> <<>>]

\* the digits of the integer part of |f|
TruncDigits(f) ==
    IF f.dp <= 0 THEN <<>> ELSE SubSeq(f.d \o Zeros(f.dp - Len(f.d)), 1, f.dp)

\* The results a float64 to integer conversion gives when the value is out of
\* the range of the integer type.  The language leaves the result to the
\* implementation: "indefinite" is the integer indefinite value of the amd64
\* conversion instruction, "saturate" the clamping of arm64, riscv64 and wasm.
FloatToIntConversions == {"indefinite", "saturate"}

\* int64(f) under the conversion conv
Int64OfFloat(f, conv) ==
    LET mag == TruncDigits(f)
        fits == IF f.neg THEN ~MagLess(Pow2(63), mag) ELSE MagLess(mag, Pow2(63))
    IN IF fits THEN [neg |-> f.neg /\ mag # <<>>, d |-> mag]
       ELSE IF conv = "saturate" /\ ~f.neg THEN MaxInt64
       ELSE MinInt64

\* uint64(f) for f >= 0 under the conversion conv
Uint64OfFloat(f, conv) ==
    LET mag == TruncDigits(f) IN
    IF MagLess(mag, Pow2(64)) THEN [neg |-> FALSE, d |-> mag]
    ELSE IF conv = "saturate" THEN MaxUint64
    ELSE BigZero

\* float64(i): exact for the integers that the conversions above give,
\* except that 2^63 - 1 and 2^64 - 1 round to 2^63 and 2^64
Float64OfInt(i) ==
    LET m == IF i = MaxInt64 THEN Pow2(63) ELSE IF i = MaxUint64 THEN Pow2(64) ELSE i.d
        d == StripTrailingZeros(m)
    IN [neg |-> i.neg, d |-> d, dp |-> IF d = <<>> THEN 0 ELSE Len(m)]

\* f == g of two float64 values (a negative zero equals zero)
FloatEq(f, g) == f.d = g.d /\ f.dp = g.dp /\ (f.neg = g.neg \/ f.d = <<>>)

\* f < 0
FloatNegative(f) == f.neg /\ f.d # <<>>

\* the largest float32 is 3.4028235e38
MaxFloat32Digits ==
    <<"3", "4", "0", "2", "8", "2", "3", "5", "0", "0", "0", "0", "0", "0", "0">>

\* reflect.Value.OverflowFloat for a float32 target
OverflowFloat32(f) ==
    \/ f.dp > 39
    \/ f.dp = 39 /\ DigitsLess(MaxFloat32Digits,
                               SubSeq(f.d \o Zeros(Len(MaxFloat32Digits)), 1, Len(MaxFloat32Digits)))

\* numberValue(f, v): the result for a target of kind kind holding cur;
\* conv is the float to integer conversion of the build
numberValue(f, kind, cur, conv) ==
    CASE kind \in {"float32", "float64"} ->
           IF kind = "float32" /\ OverflowFloat32(f)
           THEN [val |-> cur, err |-> TRUE] ELSE [val |-> f, err |-> FALSE]
      [] kind \in IntKinds ->
           LET i == Int64OfFloat(f, conv) IN
           IF ~FloatEq(Float64OfInt(i), f) THEN [val |-> cur, err |-> TRUE]
           ELSE IF OverflowInt(i, BitsOf(kind)) THEN [val |-> cur, err |-> TRUE]
           ELSE [val |-> i, err |-> FALSE]
      [] kind \in UintKinds ->
           IF FloatNegative(f) THEN [val |-> cur, err |-> TRUE]
           ELSE LET u == Uint64OfFloat(f, conv) IN
                IF ~FloatEq(Float64OfInt(u), f) THEN [val |-> cur, err |-> TRUE]
                ELSE IF OverflowUint(u, BitsOf(kind)) THEN [val |-> cur, err |-> TRUE]
                ELSE [val |-> u, err |-> FALSE]
      [] OTHER -> [val |-> cur, err |-> TRUE]

IntToBig(n) ==
    [neg |-> n < 0, d |-> IF n = 0 THEN <<>> ELSE IntToDigits(IF n < 0 THEN 0 - n ELSE n)]

\* strconv.ParseInt(s, 10, 64): an optional sign and decimal digits
ParseInt10(s) ==
    LET neg == s # <<>> /\ s[1] = "-"
        body == IF s # <<>> /\ s[1] \in {"+", "-"} THEN Tail(s) ELSE s
        mag == StripLeadingZeros(body)
        n == [neg |-> neg /\ mag # <<>>, d |-> mag]
    IN IF body = <<>> \/ SpanDigits(body, 1) # Len(body) + 1 THEN [ok |-> FALSE, n |-> BigZero]
       ELSE IF OverflowInt(n, 64) THEN [ok |-> FALSE, n |-> BigZero]
       ELSE [ok |-> TRUE, n |-> n]

(***************************************************************************)
(* Process environment (package os).  The environment is a function from   *)
(* variable names to values.                                               *)
(***************************************************************************)

EmptyMap == [k \in {} |-> <<>>]

\* os.Setenv fails (EINVAL) on an empty name, on a name holding '=' and on a
\* NUL byte; the model's bytes include no NUL
SetenvFails(key) == key = <<>> \/ IndexByte(key, "=") # 0

\* os.Setenv(key, val) on environment env, when it does not fail
Setenv(env, key, val) == (key :> val) @@ env

(***************************************************************************)
(* option.DecodeOption and the line-format codec (internal/encoding/dotenv)*)
(***************************************************************************)

\* option.DecodeOption
DecodeOption ==
    [AutomaticEnv : BOOLEAN, PersistToOSEnv : BOOLEAN, PreferFileOverEnv : BOOLEAN]

\* the zero DecodeOption of a new Gathuk (globalDecodeOpt)
ZeroDecodeOption ==
    [AutomaticEnv |-> FALSE, PersistToOSEnv |-> FALSE, PreferFileOverEnv |-> FALSE]

\* one line of Codec.Decode: trim, cut at '#', take the first space-delimited
\* piece, split it at '='; a piece without '=' is skipped
parseLine(line0) ==
    LET line1 == TrimSpace(line0)
        escape == IndexByte(line1, "#")
        line2 == IF escape # 0 THEN SubSeq(line1, 1, escape - 1) ELSE line1
        bs0 == Split(line2, " ")
        bs == Split(bs0[1], "=")
    IN IF Len(bs) < 2 THEN [ok |-> FALSE, key |-> <<>>, val |-> <<>>]
       ELSE [ok |-> TRUE, key |-> bs[1], val |-> bs[2]]

RECURSIVE decodeLines(_, _, _, _, _)
\* the line loop of Codec.Decode: every pair goes into temp and, under
\* PersistToOSEnv, into the process environment; a failing os.Setenv makes
\* Decode return nil on the spot (aborted)
decodeLines(lines, i, temp, env, do) ==
    IF i > Len(lines) THEN [temp |-> temp, env |-> env, aborted |-> FALSE]
    ELSE LET p == parseLine(lines[i])
             temp1 == IF p.ok THEN (p.key :> p.val) @@ temp ELSE temp
             persist == p.ok /\ do.PersistToOSEnv
             env1 == IF persist /\ ~SetenvFails(p.key) THEN Setenv(env, p.key, p.val)
                     ELSE env
         IN IF persist /\ SetenvFails(p.key)
            THEN [temp |-> temp1, env |-> env, aborted |-> TRUE]
            ELSE decodeLines(lines, i + 1, temp1, env1, do)

\* the os.Environ() loops with every environment entry written over temp
\* under both settings of PreferFileOverEnv
mergeEnvironOver(temp, env, do) ==
    IF do.AutomaticEnv THEN env @@ temp ELSE temp

\* the os.Environ() loops run without regard to AutomaticEnv
mergeEnvironAlways(temp, env, do) ==
    IF do.PreferFileOverEnv THEN temp @@ env ELSE env @@ temp

\* the os.Environ() loops of Codec.Decode: under PreferFileOverEnv the
\* environment fills only the names temp lacks, otherwise every environment
\* entry is written over temp
mergeEnviron(temp, env, do) ==
    IF do.AutomaticEnv
    THEN IF do.PreferFileOverEnv THEN temp @@ env ELSE env @@ temp
    ELSE temp

(***************************************************************************)
(* Reflection over the configuration type.  A type is a record with a kind;*)
(* a struct type has a name and fields, a field has an id (the key of its  *)
(* value in the record value), its Go Name, its type and its config,       *)
(* nested and json tags (empty when absent).  A struct value is a record   *)
(* keyed by the field ids; an integer value is [neg, d]; an interface      *)
(* value is [dyn, v] with dyn the dynamic type ("nil" for a nil one).      *)
(***************************************************************************)

RECURSIVE ZeroOf(_)
\* reflect.Zero(type)
ZeroOf(type) ==
    CASE type.kind = "string" -> <<>>
      [] type.kind \in IntKinds \cup UintKinds -> BigZero
      [] type.kind \in {"float32", "float64"} -> FloatZero
      [] type.kind = "bool" -> FALSE
      [] type.kind = "struct" ->
           [id \in {type.fields[i].id : i \in 1..Len(type.fields)} |->
              ZeroOf((CHOOSE sf \in {type.fields[i] : i \in 1..Len(type.fields)} :
                         sf.id = id).type)]
      [] type.kind = "slice" -> [nil |-> TRUE, elems |-> <<>>]
      [] type.kind = "map" -> [nil |-> TRUE, m |-> EmptyMap]
      [] type.kind = "interface" -> [dyn |-> "nil"]
      [] OTHER -> [nil |-> TRUE]

DASH == <<"-">>

\* reflect: a field is exported when its name starts with an upper-case letter
IsExported(sf) == sf.Name # <<>> /\ IsUpper(sf.Name[1])

RECURSIVE pascalFromAfterLower(_, _)
\* a conversion that starts a word only after a letter that is not upper case
pascalFromAfterLower(s, i) ==
    IF i > Len(s) THEN <<>>
    ELSE (IF IsUpper(s[i])
          THEN (IF i > 1 /\ ~IsUpper(s[i - 1]) THEN <<"_", s[i]>> ELSE <<s[i]>>)
          ELSE <<ToUpperCh(s[i])>>) \o pascalFromAfterLower(s, i + 1)

RECURSIVE pascalFrom(_, _)
pascalFrom(s, i) ==
    IF i > Len(s) THEN <<>>
    ELSE (IF IsUpper(s[i])
          THEN (IF i > 1 THEN <<"_", s[i]>> ELSE <<s[i]>>)
          ELSE <<ToUpperCh(s[i])>>) \o pascalFrom(s, i + 1)

\* utility.PascalToUpperSnakeCase
PascalToUpperSnakeCase(s) == pascalFrom(s, 1)

RECURSIVE pascalLowerFrom(_, _)
pascalLowerFrom(s, i) ==
    IF i > Len(s) THEN <<>>
    ELSE (IF IsUpper(s[i])
          THEN (IF i > 1 THEN <<"_", ToLowerCh(s[i])>> ELSE <<ToLowerCh(s[i])>>)
          ELSE <<s[i]>>) \o pascalLowerFrom(s, i + 1)

\* utility.PascalToLowerSnakeCase
PascalToLowerSnakeCase(s) == pascalLowerFrom(s, 1)

\* the any that setValue stores for val: a bool, else an int64 in base 10,
\* else a float64, else the string
convertAny(val) ==
    IF ParseBool(val).ok THEN [dyn |-> "bool", v |-> ParseBool(val).b]
    ELSE IF ParseInt10(val).ok THEN [dyn |-> "int64", v |-> ParseInt10(val).n]
    ELSE IF ParseFloat(val).ok THEN [dyn |-> "float64", v |-> ParseFloat(val).f]
    ELSE [dyn |-> "string", v |-> val]

\* setValue of scan.go: the string val converted to the field's kind.  Kinds
\* outside the switch are left alone without an error.
setValue(type, cur, val) ==
    CASE type.kind = "string" -> [val |-> val, err |-> FALSE]
      [] type.kind \in {"int", "int64"} ->
            LET r == ParseInt0(val) IN
            IF r.ok THEN [val |-> IntToBig(r.n), err |-> FALSE]
            ELSE [val |-> cur, err |-> TRUE]
      [] type.kind = "float64" ->
            LET r == ParseFloat(val) IN
            IF r.ok THEN [val |-> r.f, err |-> FALSE] ELSE [val |-> cur, err |-> TRUE]
      [] type.kind = "bool" ->
            LET r == ParseBool(val) IN
            IF r.ok THEN [val |-> r.b, err |-> FALSE] ELSE [val |-> cur, err |-> TRUE]
      [] type.kind = "interface" -> [val |-> convertAny(val), err |-> FALSE]
      [] OTHER -> [val |-> cur, err |-> FALSE]

\* the name of a nested-record field: nested tag, else config tag, else the
\* derived name, joined to a non-empty parent prefix with '_'
nestedNameOf(sf, nestedPrefix) ==
    LET n1 == IF sf.nested = <<>> THEN sf.config ELSE sf.nested
        n2 == IF n1 = <<>> THEN PascalToUpperSnakeCase(sf.Name) ELSE n1
    IN IF nestedPrefix # <<>> THEN nestedPrefix \o <<"_">> \o n2 ELSE n2

\* a leaf key that is joined to the prefix with '_' even when the prefix is
\* empty
leafNameAlwaysJoined(sf, nestedPrefix) ==
    ToUpper(nestedPrefix \o <<"_">>
            \o (IF sf.config = <<>> THEN PascalToUpperSnakeCase(sf.Name) ELSE sf.config))

\* the key of a leaf field: config tag, else the derived name, joined to a
\* non-empty prefix with '_', the whole upper-cased
leafNameOf(sf, nestedPrefix) ==
    LET n1 == IF sf.config = <<>> THEN PascalToUpperSnakeCase(sf.Name) ELSE sf.config
        n2 == IF nestedPrefix # <<>> THEN nestedPrefix \o <<"_">> \o n1 ELSE n1
    IN ToUpper(n2)

\* strings.HasPrefix
StartsWith(s, prefix) == Len(prefix) <= Len(s) /\ SubSeq(s, 1, Len(prefix)) = prefix

\* the keys of the table that toMap and toNative take for a prefix
keysWithPrefix(temp, prefix) ==
    {k \in DOMAIN temp : prefix = <<>> \/ StartsWith(k, prefix)}

\* Codec.toNative(prefix) of the line format: a new map[string]any with the
\* converted value of every key taken; setValue gives no error for an any
dotenvToNative(temp, prefix) ==
    [val |-> [dyn |-> "map",
              v |-> [k \in keysWithPrefix(temp, prefix) |-> convertAny(temp[k])]],
     err |-> FALSE]

\* the end of Codec.toMap: r holds the result of setValue for every key taken,
\* and a key is stored with the prefix and '_' before it when there is a prefix
toMapOf(r, cur, prefix) ==
    IF \E k \in DOMAIN r : r[k].err THEN [val |-> cur, err |-> TRUE]
    ELSE [val |-> [nil |-> FALSE,
                   m |-> IF prefix = <<>> THEN [k \in DOMAIN r |-> r[k].val]
                         ELSE [n \in {prefix \o <<"_">> \o k : k \in DOMAIN r} |->
                                 r[SubSeq(n, Len(prefix) + 2, Len(n))].val]],
          err |-> FALSE]

\* Codec.toMap(v, prefix): a new map replaces the map of v
toMap(type, cur, temp, prefix) ==
    IF type.key.kind # "string" THEN [val |-> cur, err |-> TRUE]
    ELSE toMapOf([k \in keysWithPrefix(temp, prefix) |->
                    setValue(type.elem, ZeroOf(type.elem), temp[k])], cur, prefix)

RECURSIVE scanFields(_, _, _, _, _, _, _)
RECURSIVE scanNestedWithNestedPrefix(_, _, _, _, _, _)

\* field id of the struct value v set to the value of the result r, with the
\* error of r
putField(v, id, r) == [val |-> [v EXCEPT ![id] = r.val], err |-> r.err]

\* the body of the field loop of scanNestedWithNestedPrefix for the field sf
\* of the struct value v; canSet is v.CanSet()
scanField(parent, sf, v, nestedPrefix, temp, canSet) ==
    IF sf.type.kind = "struct" /\ sf.type.name # parent
    THEN IF sf.nested = DASH THEN [val |-> v, err |-> FALSE]
         ELSE putField(v, sf.id,
                       scanNestedWithNestedPrefix(parent, sf.type, v[sf.id],
                                                  nestedNameOf(sf, nestedPrefix), temp,
                                                  canSet /\ IsExported(sf)))
    ELSE IF \/ sf.config = DASH
            \/ leafNameOf(sf, nestedPrefix) \notin DOMAIN temp
            \/ ~(canSet /\ IsExported(sf))
         THEN [val |-> v, err |-> FALSE]
         ELSE putField(v, sf.id,
                       setValue(sf.type, v[sf.id], temp[leafNameOf(sf, nestedPrefix)]))

\* the field loop after field i gave the result r: the first error ends the
\* scan and the fields written before it keep their new values
scanRest(parent, type, r, nestedPrefix, temp, canSet, i) ==
    IF r.err THEN r
    ELSE scanFields(parent, type, r.val, nestedPrefix, temp, canSet, i + 1)

\* the field loop of scanNestedWithNestedPrefix from field i
scanFields(parent, type, v, nestedPrefix, temp, canSet, i) ==
    IF i > Len(type.fields) THEN [val |-> v, err |-> FALSE]
    ELSE scanRest(parent, type,
                  scanField(parent, type.fields[i], v, nestedPrefix, temp, canSet),
                  nestedPrefix, temp, canSet, i)

\* Codec.scanNestedWithNestedPrefix; for the kinds outside the switch an
\* error is built and dropped
scanNestedWithNestedPrefix(parent, type, v, nestedPrefix, temp, canSet) ==
    IF ~canSet THEN [val |-> v, err |-> TRUE]
    ELSE CASE type.kind = "interface" -> dotenvToNative(temp, nestedPrefix)
           [] type.kind = "struct" ->
                scanFields(parent, type, v, nestedPrefix, temp, canSet, 1)
           [] type.kind = "map" -> toMap(type, v, temp, nestedPrefix)
           [] OTHER -> [val |-> v, err |-> FALSE]

\* Codec.scanWithNestedPrefix: parent is reflect.TypeOf(v) of the *T argument,
\* a pointer type, which no struct field type equals
scanWithNestedPrefix(type, v, temp) ==
    scanNestedWithNestedPrefix(<<"*">> \o (IF type.kind = "struct" THEN type.name ELSE <<>>),
                               type, v, <<>>, temp, TRUE)

\* the end of Codec.Decode after the line loop gave d: the table temp1 goes
\* to the scan, whose result is r
decodeScanned(d, temp1, r) ==
    [val |-> r.val, env |-> d.env, temp |-> temp1, err |-> r.err, scanned |-> TRUE]

decodeScan(type, val, d, temp1) ==
    decodeScanned(d, temp1, scanWithNestedPrefix(type, val, temp1))

decodeAfterLines(type, val, do, d) ==
    IF d.aborted
    THEN [val |-> val, env |-> d.env, temp |-> d.temp, err |-> FALSE, scanned |-> FALSE]
    ELSE decodeScan(type, val, d, mergeEnviron(d.temp, d.env, do))

\* dotenv Codec.Decode on a codec whose table is temp0 (empty for a new
\* codec): the value, environment and table after the call, its error, and
\* whether the scan ran
dotenvDecode(type, temp0, do, buf, env, val) ==
    decodeAfterLines(type, val, do, decodeLines(Split(buf, "\n"), 1, temp0, env, do))

RECURSIVE Orders(_)
\* the orders in which a range over a map with key set S can visit the keys
Orders(S) ==
    IF S = {} THEN {<<>>}
    ELSE UNION {{<<k>> \o o : o \in Orders(S \ {k})} : k \in S}

\* strconv.FormatInt(i, 10) and strconv.FormatUint(u, 10)
FormatInt(i) == (IF i.neg THEN <<"-">> ELSE <<>>) \o (IF i.d = <<>> THEN <<"0">> ELSE i.d)

\* parseToBytes(field) for a field that cannot be set: the bytes of a basic
\* kind, a panic for a nil pointer (field.Set on a value that is not
\* settable), nil for every other kind
parseToBytes(type, fv) ==
    CASE type.kind = "string" -> [b |-> fv, panic |-> FALSE]
      [] type.kind \in IntKinds \cup UintKinds -> [b |-> FormatInt(fv), panic |-> FALSE]
      [] type.kind \in {"float32", "float64"} -> [b |-> fmtF(fv), panic |-> FALSE]
      [] type.kind = "bool" ->
           [b |-> IF fv THEN <<"t", "r", "u", "e">> ELSE <<"f", "a", "l", "s", "e">>,
            panic |-> FALSE]
      [] type.kind = "ptr" ->
           IF fv.nil THEN [b |-> <<>>, panic |-> TRUE]
           ELSE IF type.elem.kind = "string" THEN [b |-> fv.elem, panic |-> FALSE]
           ELSE [b |-> <<>>, panic |-> FALSE]
      [] OTHER -> [b |-> <<>>, panic |-> FALSE]

\* c.temp[name] = parseToBytes(field)
flattenLeaf(st, name, r) ==
    IF r.panic THEN [st EXCEPT !.panic = TRUE]
    ELSE [st EXCEPT !.temp = (name :> r.b) @@ st.temp]

\* the nested branch of flattenNestedWithNestedPrefix: it calls
\* scanNestedWithNestedPrefix, the scan of Decode, on the field and drops
\* what it returns; r is that result for a field of the value that Encode
\* was given, which cannot be set
flattenNested(st, r) == st

\* the body of the field loop of flattenNestedWithNestedPrefix for the
\* field sf of the struct value v; st is the table so far and whether a
\* call panicked
flattenField(parent, sf, v, nestedPrefix, st) ==
    IF sf.type.kind = "struct" /\ sf.type.name # parent
    THEN IF sf.nested = DASH THEN st
         ELSE flattenNested(st, scanNestedWithNestedPrefix(parent, sf.type, v[sf.id],
                                                            nestedNameOf(sf, nestedPrefix),
                                                            st.temp, FALSE))
    ELSE IF sf.config = DASH THEN st
    ELSE flattenLeaf(st, leafNameOf(sf, nestedPrefix), parseToBytes(sf.type, v[sf.id]))

RECURSIVE flattenNestedWithNestedPrefix(_, _, _, _, _, _)
\* Codec.flattenNestedWithNestedPrefix from field i
flattenNestedWithNestedPrefix(parent, type, v, nestedPrefix, st, i) ==
    IF i > Len(type.fields) \/ st.panic THEN st
    ELSE flattenNestedWithNestedPrefix(parent, type, v, nestedPrefix,
                                       flattenField(parent, type.fields[i], v,
                                                    nestedPrefix, st), i + 1)

\* Codec.flattenWithNestedPrefix(v) for a struct value
flattenWithNestedPrefix(type, v, temp) ==
    flattenNestedWithNestedPrefix(type.name, type, v, <<>>,
                                  [temp |-> temp, panic |-> FALSE], 1)

RECURSIVE encodeLines(_, _, _)
\* the loop over c.temp of Encode in the order that the map gives
encodeLines(temp, order, i) ==
    IF i > Len(order) THEN <<>>
    ELSE order[i] \o <<"=">> \o temp[order[i]] \o <<"\n">> \o encodeLines(temp, order, i + 1)

\* dotenv Codec.Encode(val) on a codec whose table is temp0 once the value
\* is flat: the table after the call, whether it panicked, and the bytes for
\* every order of the map
encodeFlat(st) ==
    [temp |-> st.temp, panic |-> st.panic,
     out |-> IF st.panic THEN {}
             ELSE {encodeLines(st.temp, order, 1) : order \in Orders(DOMAIN st.temp)}]

dotenvEncode(type, temp0, val) == encodeFlat(flattenWithNestedPrefix(type, val, temp0))

(***************************************************************************)
(* JSON: the tokens, the tree and the serializer.  A node is a record      *)
(* [t, v]: t the node type, v its Value (an object's Value is a function   *)
(* from keys to nodes).                                                    *)
(***************************************************************************)

Token(type, value) == [Type |-> type, Value |-> value]

StringNode(v) == [t |-> "String", v |-> v]
NumberNode(v) == [t |-> "Number", v |-> v]
BooleanNode(v) == [t |-> "Boolean", v |-> v]
NullNode == [t |-> "Null"]
ArrayNode(v) == [t |-> "Array", v |-> v]
ObjectNode(v) == [t |-> "Object", v |-> v]

\* the byte of input at the 1-based position i; the bytes between the length
\* and the capacity of a freshly grown buffer are zero
ByteAt(input, i) == IF i <= Len(input) THEN input[i] ELSE "NUL"

\* bytes.HasPrefix(input[current:current+8], word)
HasPrefix(input, current, word) ==
    \A k \in 1..Len(word) : ByteAt(input, current + k - 1) = word[k]

RECURSIVE stringEnd(_, _)
\* the loop of Tokenize over a string: the index of the next '"', or
\* Len(input) + 1
stringEnd(input, current) ==
    IF current <= Len(input) /\ input[current] # "\""
    THEN stringEnd(input, current + 1) ELSE current

RECURSIVE numberScan(_, _, _, _, _)
\* the loop of Tokenize over a number
numberScan(input, current, hasDot, hasExp, expDigits) ==
    IF current > Len(input)
    THEN [current |-> current, err |-> FALSE, hasExp |-> hasExp, expDigits |-> expDigits]
    ELSE LET te == input[current] IN
         IF IsDigit(te)
         THEN numberScan(input, current + 1, hasDot, hasExp,
                         IF hasExp THEN expDigits + 1 ELSE expDigits)
         ELSE IF te = "."
         THEN IF hasDot \/ hasExp
              THEN [current |-> current, err |-> TRUE, hasExp |-> hasExp, expDigits |-> expDigits]
              ELSE numberScan(input, current + 1, TRUE, hasExp, expDigits)
         ELSE IF te \in {"e", "E"}
         THEN IF hasExp
              THEN [current |-> current, err |-> TRUE, hasExp |-> hasExp, expDigits |-> expDigits]
              ELSE numberScan(input,
                              IF current + 1 <= Len(input) /\ input[current + 1] \in {"+", "-"}
                              THEN current + 2 ELSE current + 1,
                              hasDot, TRUE, 0)
         ELSE [current |-> current, err |-> FALSE, hasExp |-> hasExp, expDigits |-> expDigits]

Punctuation ==
    [c \in {"{", "}", "[", "]", ":", ","} |->
        CASE c = "{" -> "BraceOpen" [] c = "}" -> "BraceClose"
          [] c = "[" -> "BracketOpen" [] c = "]" -> "BracketClose"
          [] c = ":" -> "Colon" [] OTHER -> "Comma"]

TokenizeError == [tokens |-> <<>>, err |-> TRUE, panic |-> FALSE]

RECURSIVE tokenizeFrom(_, _, _, _)
\* the loop of Tokenize; current is 1-based, cap the capacity of input
tokenizeFrom(input, cap, current, tokens) ==
    IF current > Len(input) THEN [tokens |-> tokens, err |-> FALSE, panic |-> FALSE]
    ELSE LET char == input[current] IN
         IF IsSpace(char) THEN tokenizeFrom(input, cap, current + 1, tokens)
         ELSE IF char \in DOMAIN Punctuation
         THEN tokenizeFrom(input, cap, current + 1,
                           Append(tokens, Token(Punctuation[char], <<char>>)))
         ELSE IF char = "\""
         THEN LET end == stringEnd(input, current + 1) IN
              IF end > Len(input) THEN TokenizeError
              ELSE tokenizeFrom(input, cap, end + 1,
                                Append(tokens, Token("String", SubSeq(input, current + 1, end - 1))))
         ELSE IF current - 1 + 8 > cap
         THEN [tokens |-> <<>>, err |-> FALSE, panic |-> TRUE]
         ELSE IF HasPrefix(input, current, <<"t", "r", "u", "e">>)
         THEN tokenizeFrom(input, cap, current + 4,
                           Append(tokens, Token("True", <<"t", "r", "u", "e">>)))
         ELSE IF HasPrefix(input, current, <<"f", "a", "l", "s", "e">>)
         THEN tokenizeFrom(input, cap, current + 5,
                           Append(tokens, Token("False", <<"f", "a", "l", "s", "e">>)))
         ELSE IF HasPrefix(input, current, <<"n", "u", "l", "l">>)
         THEN tokenizeFrom(input, cap, current + 4,
                           Append(tokens, Token("Null", <<"n", "u", "l", "l">>)))
         ELSE IF IsDigit(char) \/ char = "-"
         THEN LET r == numberScan(input, current + 1, FALSE, FALSE, 0)
                  num == SubSeq(input, current, r.current - 1)
              IN IF r.err THEN TokenizeError
                 ELSE IF r.hasExp /\ r.expDigits = 0 THEN TokenizeError
                 ELSE IF ~ParseFloat(num).ok THEN TokenizeError
                 ELSE tokenizeFrom(input, cap, r.current,
                                   Append(tokens, Token("Number", num)))
         ELSE TokenizeError

\* Tokenize(input) for an input slice of capacity cap
Tokenize(input, cap) == tokenizeFrom(input, cap, 1, <<>>)

ParseError == [node |-> NullNode, current |-> 0, err |-> TRUE]

RECURSIVE parseValue(_, _)
RECURSIVE parseObject(_, _, _)
RECURSIVE parseArray(_, _, _)

\* parseValue(&current, tokens); current is 1-based
parseValue(current, tokens) ==
    IF current > Len(tokens) THEN ParseError
    ELSE LET token == tokens[current] IN
         CASE token.Type = "String" ->
                [node |-> StringNode(token.Value), current |-> current + 1, err |-> FALSE]
           [] token.Type = "Number" ->
                [node |-> NumberNode(ParseFloat(token.Value).f),
                 current |-> current + 1, err |-> FALSE]
           [] token.Type = "True" ->
                [node |-> BooleanNode(TRUE), current |-> current + 1, err |-> FALSE]
           [] token.Type = "False" ->
                [node |-> BooleanNode(FALSE), current |-> current + 1, err |-> FALSE]
           [] token.Type = "Null" ->
                [node |-> NullNode, current |-> current + 1, err |-> FALSE]
           [] token.Type = "BraceOpen" -> parseObject(current + 1, tokens, EmptyMap)
           [] token.Type = "BracketOpen" -> parseArray(current + 1, tokens, <<>>)
           [] OTHER -> ParseError

\* the loop and the end of parseObject; value is node.Value so far
parseObject(current, tokens, value) ==
    IF current <= Len(tokens) /\ tokens[current].Type # "BraceClose"
    THEN IF tokens[current].Type # "String" THEN ParseError
         ELSE IF current + 1 > Len(tokens) \/ tokens[current + 1].Type # "Colon"
         THEN ParseError
         ELSE LET r == parseValue(current + 2, tokens) IN
              IF r.err THEN ParseError
              ELSE parseObject(IF r.current <= Len(tokens) /\ tokens[r.current].Type = "Comma"
                               THEN r.current + 1 ELSE r.current,
                               tokens,
                               (tokens[current].Value :> r.node) @@ value)
    ELSE [node |-> ObjectNode(value), current |-> current + 1, err |-> FALSE]

\* the loop and the end of parseArray; value is node.Value so far
parseArray(current, tokens, value) ==
    IF current <= Len(tokens) /\ tokens[current].Type # "BracketClose"
    THEN LET r == parseValue(current, tokens) IN
         IF r.err THEN ParseError
         ELSE parseArray(IF r.current <= Len(tokens) /\ tokens[r.current].Type = "Comma"
                         THEN r.current + 1 ELSE r.current,
                         tokens, Append(value, r.node))
    ELSE [node |-> ArrayNode(value), current |-> current + 1, err |-> FALSE]

Parser(tokens) ==
    IF Len(tokens) = 0 THEN ParseError ELSE parseValue(1, tokens)

RECURSIVE escepeStringByte(_)
escepeStringByte(s) ==
    IF s = <<>> THEN <<>>
    ELSE (CASE Head(s) = "\"" -> <<"\\", "\"">>
            [] Head(s) = "\\" -> <<"\\", "\\">>
            [] Head(s) = "\n" -> <<"\\", "n">>
            [] Head(s) = "\t" -> <<"\\", "t">>
            [] Head(s) = "\r" -> <<"\\", "r">>
            [] OTHER -> <<Head(s)>>) \o escepeStringByte(Tail(s))

serializeString(str) == <<"\"">> \o escepeStringByte(str.v) \o <<"\"">>

serializeNumber(num) == FormatFloat(num.v)

serializeBoolean(bool) ==
    IF bool.v THEN <<"t", "r", "u", "e">> ELSE <<"f", "a", "l", "s", "e">>

serializeNull == <<"n", "u", "l", "l">>

RECURSIVE serializeNode(_)
RECURSIVE serializeObject(_, _, _)
RECURSIVE serializeArray(_, _)

\* the set of byte strings serializeNode can write for node, one for each
\* iteration order of the maps in it
serializeNode(node) ==
    CASE node.t = "Object" ->
           UNION {{<<"{">> \o b \o <<"}">> : b \in serializeObject(node.v, order, 1)} :
                  order \in Orders(DOMAIN node.v)}
      [] node.t = "Array" -> {<<"[">> \o b \o <<"]">> : b \in serializeArray(node.v, 1)}
      [] node.t = "String" -> {serializeString(node)}
      [] node.t = "Number" -> {serializeNumber(node)}
      [] node.t = "Boolean" -> {serializeBoolean(node)}
      [] OTHER -> {serializeNull}

\* the loop of serializeObject from the i-th key of order
serializeObject(value, order, i) ==
    IF i > Len(order) THEN {<<>>}
    ELSE {(IF i > 1 THEN <<",">> ELSE <<>>)
          \o <<"\"">> \o escepeStringByte(order[i]) \o <<"\"", ":", " ">> \o b \o rest :
          b \in serializeNode(value[order[i]]),
          rest \in serializeObject(value, order, i + 1)}

\* the loop of serializeArray from the i-th element
serializeArray(value, i) ==
    IF i > Len(value) THEN {<<>>}
    ELSE {(IF i > 1 THEN <<",">> ELSE <<>>) \o b \o rest :
          b \in serializeNode(value[i]), rest \in serializeArray(value, i + 1)}

\* the results of serialize(node): buf.Bytes()
serialize(node) == serializeNode(node)

RECURSIVE growCap(_, _)
growCap(c, n) == IF n <= c THEN c ELSE growCap(2 * c, n)

\* the capacity of the slice that a bytes.Buffer filled with n bytes returns:
\* the first write allocates 64 bytes and each growth doubles
BufferCap(n) == growCap(64, n)

(***************************************************************************)
(* JSON: the mapper from a tree to a value of the configuration type.      *)
(* A slice value is [nil, elems], a map value [nil, m], a pointer value    *)
(* [nil] or [nil, elem].                                                   *)
(***************************************************************************)

\* strconv.ParseUint(s, 10, 64): decimal digits without a sign
ParseUint10(s) ==
    LET n == [neg |-> FALSE, d |-> StripLeadingZeros(s)] IN
    IF s = <<>> \/ SpanDigits(s, 1) # Len(s) + 1 THEN [ok |-> FALSE, n |-> BigZero]
    ELSE IF OverflowUint(n, 64) THEN [ok |-> FALSE, n |-> BigZero]
    ELSE [ok |-> TRUE, n |-> n]

\* Codec.stringValue
stringValue(s, type, cur) ==
    LET fail == [val |-> cur, err |-> TRUE] IN
    CASE type.kind = "string" -> [val |-> s, err |-> FALSE]
      [] type.kind \in IntKinds ->
           LET r == ParseInt10(s) IN
           IF r.ok /\ ~OverflowInt(r.n, BitsOf(type.kind))
           THEN [val |-> r.n, err |-> FALSE] ELSE fail
      [] type.kind \in UintKinds ->
           LET r == ParseUint10(s) IN
           IF r.ok /\ ~OverflowUint(r.n, BitsOf(type.kind))
           THEN [val |-> r.n, err |-> FALSE] ELSE fail
      [] type.kind \in {"float32", "float64"} ->
           LET r == ParseFloat(s) IN
           IF r.ok /\ ~(type.kind = "float32" /\ OverflowFloat32(r.f))
           THEN [val |-> r.f, err |-> FALSE] ELSE fail
      [] type.kind = "bool" ->
           LET r == ParseBool(s) IN
           IF r.ok THEN [val |-> r.b, err |-> FALSE] ELSE fail
      [] OTHER -> fail

RECURSIVE toNative(_)
\* Codec.toNative: the any for a node
toNative(node) ==
    CASE node.t = "String" -> [dyn |-> "string", v |-> node.v]
      [] node.t = "Number" -> [dyn |-> "float64", v |-> node.v]
      [] node.t = "Boolean" -> [dyn |-> "bool", v |-> node.v]
      [] node.t = "Null" -> [dyn |-> "nil"]
      [] node.t = "Array" ->
           [dyn |-> "slice", v |-> [i \in 1..Len(node.v) |-> toNative(node.v[i])]]
      [] node.t = "Object" ->
           [dyn |-> "map", v |-> [k \in DOMAIN node.v |-> toNative(node.v[k])]]

\* the name under which mapObject looks a field up, or the DASH of a field
\* that it skips: config tag, else json tag, cut at the first comma, else
\* the derived lower snake case name
jsonNameOf(sf) ==
    LET jsonTag == IF sf.config = <<>> THEN sf.json ELSE sf.config
        idx == IndexByte(jsonTag, ",")
        name == IF idx # 0 THEN SubSeq(jsonTag, 1, idx - 1) ELSE jsonTag
    IN IF sf.config = DASH \/ (sf.config = <<>> /\ sf.json = DASH) THEN DASH
       ELSE IF name = <<>> THEN PascalToLowerSnakeCase(sf.Name) ELSE name

RECURSIVE nodeToValue(_, _, _, _, _)
RECURSIVE mapObject(_, _, _, _, _)

\* whether the call that gave r panicked
Panics(r) == "panic" \in DOMAIN r /\ r.panic

\* the end of mapToMap: r holds the result of nodeToValue for every key; with
\* a key that panics and another that fails the iteration order of the map
\* decides between the two, and the result carries both
mapOf(r, cur) ==
    IF \E k \in DOMAIN r : Panics(r[k])
    THEN [val |-> cur, err |-> \E k \in DOMAIN r : r[k].err, panic |-> TRUE]
    ELSE IF \E k \in DOMAIN r : r[k].err THEN [val |-> cur, err |-> TRUE]
    ELSE [val |-> [nil |-> FALSE, m |-> [k \in DOMAIN r |-> r[k].val]], err |-> FALSE]

\* the end of mapArray: r holds the result of nodeToValue for every item
sliceOf(r, cur) ==
    IF \E i \in DOMAIN r : Panics(r[i]) /\ \A j \in 1..(i - 1) : ~r[j].err
    THEN [val |-> cur, err |-> FALSE, panic |-> TRUE]
    ELSE IF \E i \in DOMAIN r : r[i].err THEN [val |-> cur, err |-> TRUE]
    ELSE [val |-> [nil |-> FALSE, elems |-> [i \in DOMAIN r |-> r[i].val]],
          err |-> FALSE]

\* Codec.nodeToValue(node, v): type and cur are the type and the value of v,
\* canSet is v.CanSet(), conv the float to integer conversion of the build
nodeToValue(node, type, cur, canSet, conv) ==
    IF ~canSet THEN [val |-> cur, err |-> TRUE]
    ELSE IF type.kind = "interface"
    THEN \* v.Set(reflect.ValueOf(native)): reflect.ValueOf(nil) is the zero
         \* Value, and Set panics on it
         IF node.t = "Null" THEN [val |-> cur, err |-> FALSE, panic |-> TRUE]
         ELSE [val |-> toNative(node), err |-> FALSE]
    ELSE CASE node.t = "Object" ->
                (CASE type.kind = "struct" -> mapObject(node, type, cur, conv, 1)
                   [] type.kind = "map" ->
                        \* mapToMap: a new map with an element for every key
                        IF type.key.kind # "string" THEN [val |-> cur, err |-> TRUE]
                        ELSE mapOf([k \in DOMAIN node.v |->
                                      nodeToValue(node.v[k], type.elem,
                                                  ZeroOf(type.elem), TRUE, conv)], cur)
                   [] OTHER -> [val |-> cur, err |-> TRUE])
           [] node.t = "Array" ->
                \* mapArray: a new slice with an element for every item
                IF type.kind # "slice" THEN [val |-> cur, err |-> TRUE]
                ELSE sliceOf([i \in 1..Len(node.v) |->
                                nodeToValue(node.v[i], type.elem,
                                            ZeroOf(type.elem), TRUE, conv)], cur)
           [] node.t = "String" -> stringValue(node.v, type, cur)
           [] node.t = "Number" -> numberValue(node.v, type.kind, cur, conv)
           [] node.t = "Boolean" ->
                IF type.kind = "bool" THEN [val |-> node.v, err |-> FALSE]
                ELSE [val |-> cur, err |-> TRUE]
           [] node.t = "Null" -> [val |-> ZeroOf(type), err |-> FALSE]

\* v.Field(i) after nodeToValue gave r for it
putMapped(v, id, r) ==
    IF Panics(r) THEN [val |-> v, err |-> FALSE, panic |-> TRUE] ELSE putField(v, id, r)

\* the field loop body of a mapObject that zero-fills the fields that the
\* object does not name
mapFieldZeroFill(node, sf, v, conv) ==
    IF ~IsExported(sf) \/ jsonNameOf(sf) = DASH THEN [val |-> v, err |-> FALSE]
    ELSE IF jsonNameOf(sf) \notin DOMAIN node.v
    THEN [val |-> [v EXCEPT ![sf.id] = ZeroOf(sf.type)], err |-> FALSE]
    ELSE putMapped(v, sf.id,
                   nodeToValue(node.v[jsonNameOf(sf)], sf.type, v[sf.id], TRUE, conv))

\* the body of the field loop of Codec.mapObject for the field sf of the
\* struct value v
mapField(node, sf, v, conv) ==
    IF \/ ~IsExported(sf)
       \/ jsonNameOf(sf) = DASH
       \/ jsonNameOf(sf) \notin DOMAIN node.v
    THEN [val |-> v, err |-> FALSE]
    ELSE putMapped(v, sf.id,
                   nodeToValue(node.v[jsonNameOf(sf)], sf.type, v[sf.id], TRUE, conv))

\* the field loop after field i gave the result r: the first error ends it
\* and the fields written before keep their new values
mapRest(node, type, r, conv, i) ==
    IF r.err \/ Panics(r) THEN r ELSE mapObject(node, type, r.val, conv, i + 1)

\* the field loop of Codec.mapObject from field i of the struct value v
mapObject(node, type, v, conv, i) ==
    IF i > Len(type.fields) THEN [val |-> v, err |-> FALSE]
    ELSE mapRest(node, type, mapField(node, type.fields[i], v, conv), conv, i)

\* Codec.ASTToStruct(node, v) for a non-nil v
ASTToStruct(node, type, cur, conv) == nodeToValue(node, type, cur, TRUE, conv)

\* the end of json Codec.Decode: the mapper gave r
decodeMapped(r) == [val |-> r.val, err |-> r.err, panic |-> Panics(r)]

\* json Codec.Decode after the parser gave ast
decodeParsed(ast, type, cur, conv) ==
    IF ast.err THEN [val |-> cur, err |-> TRUE, panic |-> FALSE]
    ELSE decodeMapped(ASTToStruct(ast.node, type, cur, conv))

\* json Codec.Decode after Tokenize gave tk
decodeTokens(tk, type, cur, conv) ==
    IF tk.panic THEN [val |-> cur, err |-> FALSE, panic |-> TRUE]
    ELSE IF tk.err THEN [val |-> cur, err |-> TRUE, panic |-> FALSE]
    ELSE decodeParsed(Parser(tk.tokens), type, cur, conv)

\* json Codec.Decode(val, dst): val is the byte slice [b, cap, nil]
jsonDecode(type, val, cur, conv) ==
    IF val.nil THEN [val |-> cur, err |-> FALSE, panic |-> FALSE]
    ELSE decodeTokens(Tokenize(val.b, val.cap), type, cur, conv)

RECURSIVE valueToNode(_, _)

\* the end of structToNode, sliceToNode and mapToNode: r holds the result of
\* valueToNode for every name or index
nodesOf(kind, r) ==
    IF \E k \in DOMAIN r : r[k].err THEN [node |-> NullNode, err |-> TRUE]
    ELSE [node |-> [t |-> kind, v |-> [k \in DOMAIN r |-> r[k].node]], err |-> FALSE]

\* the fields that structToNode gives a key
encodedFields(type) ==
    {sf \in {type.fields[i] : i \in 1..Len(type.fields)} :
        IsExported(sf) /\ jsonNameOf(sf) # DASH}

\* the last of the fields that structToNode gives the key n
lastNamed(type, n) ==
    CHOOSE i \in 1..Len(type.fields) :
        /\ type.fields[i] \in encodedFields(type)
        /\ jsonNameOf(type.fields[i]) = n
        /\ \A j \in (i + 1)..Len(type.fields) :
              type.fields[j] \in encodedFields(type) => jsonNameOf(type.fields[j]) # n

\* c.valueToNode(v.Field(i), fieldPath)
fieldToNode(sf, v) == valueToNode(sf.type, v[sf.id])

\* Codec.structToNode: a later field with the name of an earlier one
\* replaces it
structToNode(type, v) ==
    nodesOf("Object",
            [n \in {jsonNameOf(sf) : sf \in encodedFields(type)} |->
                fieldToNode(type.fields[lastNamed(type, n)], v)])

\* Codec.valueToNode(v, path); an any holds a value of a basic kind here
valueToNode(type, v) ==
    CASE type.kind = "interface" ->
           (CASE v.dyn = "nil" -> [node |-> NullNode, err |-> FALSE]
              [] v.dyn = "string" -> [node |-> StringNode(v.v), err |-> FALSE]
              [] v.dyn = "bool" -> [node |-> BooleanNode(v.v), err |-> FALSE]
              [] v.dyn = "float64" -> [node |-> NumberNode(v.v), err |-> FALSE]
              [] v.dyn = "int64" -> [node |-> NumberNode(Float64OfInt(v.v)), err |-> FALSE]
              [] OTHER -> [node |-> NullNode, err |-> TRUE])
      [] type.kind = "ptr" ->
           IF v.nil THEN [node |-> NullNode, err |-> FALSE]
           ELSE valueToNode(type.elem, v.elem)
      [] type.kind = "struct" -> structToNode(type, v)
      [] type.kind = "slice" ->
           nodesOf("Array", [i \in 1..Len(v.elems) |-> valueToNode(type.elem, v.elems[i])])
      [] type.kind = "map" ->
           IF type.key.kind # "string" THEN [node |-> NullNode, err |-> TRUE]
           ELSE nodesOf("Object", [k \in DOMAIN v.m |-> valueToNode(type.elem, v.m[k])])
      [] type.kind = "string" -> [node |-> StringNode(v), err |-> FALSE]
      [] type.kind = "bool" -> [node |-> BooleanNode(v), err |-> FALSE]
      [] type.kind \in IntKinds \cup UintKinds ->
           [node |-> NumberNode(Float64OfInt(v)), err |-> FALSE]
      [] type.kind \in {"float32", "float64"} -> [node |-> NumberNode(v), err |-> FALSE]
      [] OTHER -> [node |-> NullNode, err |-> TRUE]

\* Codec.StructToAST(&val)
StructToAST(type, v) == valueToNode(type, v)

\* json Codec.Encode(val) once StructToAST gave ast: the bytes for every
\* order of the maps
encodeAst(ast) == [err |-> ast.err, out |-> IF ast.err THEN {} ELSE serialize(ast.node)]

jsonEncode(type, val) == encodeAst(StructToAST(type, val))

(***************************************************************************)
(* The configuration manager Gathuk[T] (gathuk.go) with the default codec  *)
(* registry, instantiated with the record type Config.                     *)
(***************************************************************************)

Field(id, name, type, config, nested) ==
    [id |-> id, Name |-> name, type |-> type, config |-> config, nested |-> nested,
     json |-> <<>>]

\* type Database struct { User string }
Database ==
    [kind |-> "struct", name |-> <<"D", "a", "t", "a", "b", "a", "s", "e">>,
     fields |-> <<Field("User", <<"U", "s", "e", "r">>, [kind |-> "string"], <<>>, <<>>)>>]

\* type Config struct { Port int; Host string; Debug bool;
\*                      Database Database `nested:"db"` }
Config ==
    [kind |-> "struct", name |-> <<"C", "o", "n", "f", "i", "g">>,
     fields |-> <<Field("Port", <<"P", "o", "r", "t">>, [kind |-> "int"], <<>>, <<>>),
                  Field("Host", <<"H", "o", "s", "t">>, [kind |-> "string"], <<>>, <<>>),
                  Field("Debug", <<"D", "e", "b", "u", "g">>, [kind |-> "bool"], <<>>, <<>>),
                  Field("Database", <<"D", "a", "t", "a", "b", "a", "s", "e">>,
                        Database, <<>>, <<"d", "b">>)>>]

ENV == <<"e", "n", "v">>
JSON == <<"j", "s", "o", "n">>

\* filepath.Ext: the suffix of the last path element from its last dot
Ext(path) ==
    LET dot == LastIndexByte(path, ".") IN
    IF dot = 0 \/ dot < LastIndexByte(path, "/") THEN <<>>
    ELSE SubSeq(path, dot, Len(path))

RECURSIVE TrimDots(_)
\* strings.Trim(s, ".")
TrimDots(s) ==
    IF s # <<>> /\ Head(s) = "." THEN TrimDots(Tail(s))
    ELSE IF s # <<>> /\ s[Len(s)] = "." THEN TrimDots(SubSeq(s, 1, Len(s) - 1))
    ELSE s

\* resolveFilenames
resolveFilenames(filenames) ==
    IF Len(filenames) = 0 THEN <<<<".", "e", "n", "v">>>> ELSE filenames

\* a codec instance: its kind, its decode options (hasDo is do != nil) and
\* the table of a line-format codec
NewCodec(kind) ==
    [kind |-> kind, hasDo |-> FALSE, do |-> ZeroDecodeOption, temp |-> EmptyMap]

\* DefaultCodecRegistry.codec: a registered codec, else a new codec of a
\* built-in format
codec(codecs, format) ==
    LET f == ToLower(format) IN
    IF f \in DOMAIN codecs THEN [found |-> TRUE, builtin |-> FALSE, c |-> codecs[f]]
    ELSE IF f = ENV THEN [found |-> TRUE, builtin |-> TRUE, c |-> NewCodec("dotenv")]
    ELSE IF f = JSON THEN [found |-> TRUE, builtin |-> TRUE, c |-> NewCodec("json")]
    ELSE [found |-> FALSE, builtin |-> FALSE, c |-> NewCodec("none")]

\* Codec.ApplyDecodeOption
ApplyDecodeOption(c, do) == [c EXCEPT !.hasDo = TRUE, !.do = do]

\* How the source of a load gives its bytes to the bytes.Buffer of load:
\* "ReadFrom" for a file or another plain reader, "WriteTo" for a reader that
\* writes itself (strings.Reader, bytes.Reader, bytes.Buffer)
ReaderKinds == {"ReadFrom", "WriteTo"}

\* buf.Bytes() after io.Copy(&buf, src): ReadFrom keeps 512 spare bytes; a
\* WriteTo source writes once, and writes nothing when it is empty, which
\* leaves the nil slice
bufferBytes(content, reader) ==
    IF reader = "ReadFrom"
    THEN [b |-> content, cap |-> Len(content) + 512, nil |-> FALSE]
    ELSE [b |-> content,
          cap |-> IF Len(content) <= 64 THEN 64 ELSE Len(content),
          nil |-> content = <<>>]

\* what load gives for the result r of a decoder that worked with options do
loaded(r, env, do) ==
    [value |-> r.val, osEnv |-> env, err |-> r.err, panic |-> r.panic,
     decoded |-> TRUE, do |-> do]

\* the dotenv decoder's result as a decoder result: it carries the
\* environment and never panics
dotenvLoaded(r, do) ==
    [value |-> r.val, osEnv |-> r.env, err |-> r.err, panic |-> FALSE,
     decoded |-> TRUE, do |-> do]

\* the end of load: dc.Decode(by, val) on the decoder dc
decodeWith(dc, by, value, env, conv) ==
    IF dc.kind = "dotenv"
    THEN dotenvLoaded(dotenvDecode(Config, dc.temp, dc.do, by.b, env, value), dc.do)
    ELSE loaded(jsonDecode(Config, by, value, conv), env, dc.do)

\* load after the registry gave look: the global options go to a decoder
\* that has none
loadWith(look, globalDecodeOpt, by, value, env, conv) ==
    IF ~look.found
    THEN [value |-> value, osEnv |-> env, err |-> TRUE, panic |-> FALSE,
          decoded |-> FALSE, do |-> ZeroDecodeOption]
    ELSE decodeWith(IF look.c.hasDo THEN look.c
                    ELSE ApplyDecodeOption(look.c, globalDecodeOpt),
                    by, value, env, conv)

\* Gathuk.load(src, format, &g.value) with the registry codecs: the record
\* and the environment after the call, what it returned, and the decode
\* options do that the decoder worked with
load(codecs, globalDecodeOpt, content, reader, format, value, env, conv) ==
    loadWith(codec(codecs, format), globalDecodeOpt, bufferBytes(content, reader),
             value, env, conv)

\* Gathuk.loadFile(filename, &g.value) on the file system fs
loadFile(fs, codecs, globalDecodeOpt, filename, value, env, conv) ==
    IF filename \notin DOMAIN fs
    THEN [value |-> value, osEnv |-> env, err |-> TRUE, panic |-> FALSE,
          decoded |-> FALSE, do |-> ZeroDecodeOption]
    ELSE load(codecs, globalDecodeOpt, fs[filename], "ReadFrom",
              TrimDots(Ext(filename)), value, env, conv)

(***************************************************************************)
(* The files and the process environments of the runs.                     *)
(***************************************************************************)

\* a.env: PORT=8080 / HOST=web / DEBUG=true
FileA ==
    [name |-> <<"a", ".", "e", "n", "v">>,
     content |->
       <<"P", "O", "R", "T", "=", "8", "0", "8", "0", "\n", "H", "O", "S",
       "T", "=", "w", "e", "b", "\n", "D", "E", "B", "U", "G", "=", "t", "r",
       "u", "e">>]

\* b.env: PORT=0 / DEBUG=false / DB_USER=u
FileB ==
    [name |-> <<"b", ".", "e", "n", "v">>,
     content |->
       <<"P", "O", "R", "T", "=", "0", "\n", "D", "E", "B", "U", "G", "=",
       "f", "a", "l", "s", "e", "\n", "D", "B", "_", "U", "S", "E", "R", "=",
       "u">>]

\* bad.env: HOST=h / DEBUG=x
FileBad ==
    [name |-> <<"b", "a", "d", ".", "e", "n", "v">>,
     content |->
       <<"H", "O", "S", "T", "=", "h", "\n", "D", "E", "B", "U", "G", "=",
       "x">>]

\* c.json: {"port": 9000, "host": "j"}
FileJson ==
    [name |-> <<"c", ".", "j", "s", "o", "n">>,
     content |->
       <<"{", "\"", "p", "o", "r", "t", "\"", ":", " ", "9", "0", "0", "0",
       ",", " ", "\"", "h", "o", "s", "t", "\"", ":", " ", "\"", "j", "\"",
       "}">>]

Files == {FileA, FileB, FileBad, FileJson}

\* the file system: the content of every file that exists (there is no .env)
FS == [n \in {f.name : f \in Files} |-> (CHOOSE f \in Files : f.name = n).content]

FileNames == DOMAIN FS

PORT == <<"P", "O", "R", "T">>
HOST == <<"H", "O", "S", "T">>

PortValues == {<<>>, <<"9", "0", "0", "0">>}
HostValues == {<<>>, <<"e", "h">>}

\* the process environments: PORT and HOST each unset, empty or set
Envs ==
    {p @@ h : p \in {EmptyMap} \cup {PORT :> v : v \in PortValues},
              h \in {EmptyMap} \cup {HOST :> v : v \in HostValues}}

RECURSIVE SeqsUpTo(_, _)
\* the sequences over S of length at most n
SeqsUpTo(S, n) ==
    IF n = 0 THEN {<<>>}
    ELSE LET shorter == SeqsUpTo(S, n - 1) IN
         shorter \cup {Append(q, x) : q \in shorter, x \in S}

(***************************************************************************)
(* The state machine of one Gathuk[Config] and the process around it.      *)
(***************************************************************************)

VARIABLES
    value,            \* g.value
    ConfigFiles,      \* g.ConfigFiles
    globalDecodeOpt,  \* g.globalDecodeOpt
    osEnv,            \* the process environment
    ret,              \* what the last call returned: "nil", "error" or "panic"
    ops,              \* the number of calls made
    call,             \* history: the last LoadConfigFiles call and its decodings
    used,             \* history: format and decode options of the last decoding
    requested,        \* history: the options given to SetDecodeOption per format
    merged,           \* history: the record that the merge rule of the
                      \* documentation gives for the loads made
    allOk             \* history: no load has failed

gathukVars ==
    <<value, ConfigFiles, globalDecodeOpt, osEnv, ret, ops, call, used, requested,
      merged, allOk>>

VARIABLES
    pc,               \* the step of the run
    src,              \* the content of the source that a single load decodes
    before            \* history: g.value and the environment before that load

loadVars == <<src, before>>

VARIABLES
    rtTree,           \* the tree given to serialize
    rtBytes,          \* the bytes that serialize returned: [b, cap]
    rtTokens,         \* what Tokenize returned for them
    rtParsed          \* what Parser returned for the tokens

jsonVars == <<rtTree, rtBytes, rtTokens, rtParsed>>

VARIABLES
    numIn,            \* a number, the kind of its target and the build: [f, kind, conv]
    numOut            \* what numberValue gave: [val, err]

numberVars == <<numIn, numOut>>

VARIABLES
    mergeDst,         \* the record dst of mergeStruct(dst, src)
    mergeSrc,         \* the record src
    mergeOut          \* dst after the call

mergeVars == <<mergeDst, mergeSrc, mergeOut>>

VARIABLES
    opIn,             \* the arguments of the one call of a run on a codec
    opOut,            \* what the call gave
    heap              \* the maps and arrays that the values refer to, by address

opVars == <<opIn, opOut, heap>>

vars == <<gathukVars, pc, loadVars, jsonVars, numberVars, mergeVars, opVars>>

\* the bound on the number of calls of a run
MaxOps == 3

\* the bound on the length of a list of file names
MaxFiles == 2

\* the bound on the number of names given to SetConfigFiles
MaxStored == 1

\* NewDefaultCodecRegister: no codec is registered
RegisteredCodecs == EmptyMap

YAML == <<"y", "a", "m", "l">>

\* the formats passed to SetDecodeOption and LoadConfig
Formats == {ENV, JSON, YAML}

\* the contents passed to LoadConfig
LoadContents == {FileB.content, FileJson.content}

\* the names passed to SetConfigFiles and to LoadConfigFiles
StoredNames == {FileA.name, FileBad.name}
ArgNames == {FileA.name, FileB.name, FileBad.name}

\* the decode options passed to SetDecodeOption
OptionSamples ==
    {[AutomaticEnv |-> TRUE, PersistToOSEnv |-> TRUE, PreferFileOverEnv |-> TRUE]}

\* the decode options assigned to g.globalDecodeOpt
GlobalSamples ==
    {[AutomaticEnv |-> TRUE, PersistToOSEnv |-> FALSE, PreferFileOverEnv |-> FALSE],
     [AutomaticEnv |-> FALSE, PersistToOSEnv |-> TRUE, PreferFileOverEnv |-> FALSE]}

\* the process environments at the start of a run
StartEnvs == {EmptyMap, (PORT :> <<"9", "0", "0", "0">>) @@ (HOST :> <<"e", "h">>)}

\* the conversions of a float64 out of range that can show in a decoding of
\* the given format: only the JSON mapper converts
ConversionsOf(format) ==
    IF ToLower(format) = JSON THEN FloatToIntConversions ELSE {"indefinite"}

NoCall == [made |-> FALSE, stored |-> <<>>, args |-> <<>>, log |-> <<>>, ret |-> "nil"]
NoUse == [format |-> <<>>, do |-> ZeroDecodeOption]
NoRequest == [set |-> FALSE, do |-> ZeroDecodeOption]
NoSource == <<>>
NoBefore == [value |-> ZeroOf(Config), osEnv |-> EmptyMap]
NoTree == NullNode
NoBytes == [b |-> <<>>, cap |-> 0]
NoTokens == [tokens |-> <<>>, err |-> FALSE, panic |-> FALSE]
NoParsed == [node |-> NullNode, current |-> 0, err |-> FALSE]
NoNumber == [f |-> FloatZero, kind |-> "int", conv |-> "indefinite"]
NoResult == [val |-> BigZero, err |-> FALSE]
NoRecord == <<>>
NoInput == <<>>
NoOutput == <<>>

\* the variables that a run of one part of the program leaves alone
IdleGathuk ==
    /\ ConfigFiles = <<>> /\ ret = "nil" /\ ops = 0 /\ call = NoCall /\ used = NoUse
    /\ requested = [f \in {ENV, JSON} |-> NoRequest] /\ allOk = TRUE
IdleLoad == src = NoSource /\ before = NoBefore
IdleJson ==
    rtTree = NoTree /\ rtBytes = NoBytes /\ rtTokens = NoTokens /\ rtParsed = NoParsed
IdleNumber == numIn = NoNumber /\ numOut = NoResult
IdleMerge == mergeDst = NoRecord /\ mergeSrc = NoRecord /\ mergeOut = NoRecord
IdleOp == opIn = NoInput /\ opOut = NoOutput /\ heap = <<>>

RECURSIVE KeepNonZero(_, _, _)
\* the merge rule of the documentation: a leaf of new replaces the leaf of old
\* unless it is the zero value of its type
KeepNonZero(type, old, new) ==
    IF type.kind = "struct"
    THEN [id \in DOMAIN old |->
            KeepNonZero((CHOOSE sf \in {type.fields[i] : i \in 1..Len(type.fields)} :
                            sf.id = id).type, old[id], new[id])]
    ELSE IF new = ZeroOf(type) THEN old ELSE new

RECURSIVE loadFiles(_, _, _)

\* what a call returned: "panic", "error" or "nil"
returned(r) == IF r.panic THEN "panic" ELSE IF r.err THEN "error" ELSE "nil"

\* st after loadFile gave r for the file
fileLoaded(st, file, r) ==
    [st EXCEPT
       !.value = r.value, !.osEnv = r.osEnv, !.ret = returned(r),
       !.used = IF r.decoded
                THEN [format |-> ToLower(TrimDots(Ext(file))), do |-> r.do]
                ELSE st.used,
       !.log = Append(st.log, [file |-> file, env |-> st.osEnv,
                               err |-> r.err \/ r.panic])]

\* the loop of LoadConfigFiles that goes on after a file that failed
loadRestAfterError(files, i, st) == loadFiles(files, i + 1, st)

\* the loop of LoadConfigFiles after file i: it ends at the first error
loadRest(files, i, st) ==
    IF st.ret # "nil" THEN st ELSE loadFiles(files, i + 1, st)

\* the loop of LoadConfigFiles from file i; st holds g.value, the
\* environment, the last decoding and a log with, for every file reached,
\* its name, the environment before it and whether it failed
loadFiles(files, i, st) ==
    IF i > Len(files) THEN st
    ELSE loadRest(files, i,
                  fileLoaded(st, files[i],
                             loadFile(FS, RegisteredCodecs, st.globalDecodeOpt, files[i],
                                      st.value, st.osEnv, st.conv)))

RECURSIVE mergedAfter(_, _, _, _, _)
\* the record of the merge rule after the decodings of log from entry i
mergedAfter(log, i, globalOpt, conv, m) ==
    IF i > Len(log) THEN m
    ELSE mergedAfter(log, i + 1, globalOpt, conv,
                     KeepNonZero(Config, m,
                                 loadFile(FS, RegisteredCodecs, globalOpt, log[i].file,
                                          ZeroOf(Config), log[i].env, conv).value))

Init ==
    /\ value = ZeroOf(Config)
    /\ ConfigFiles = <<>>
    /\ globalDecodeOpt = ZeroDecodeOption
    /\ osEnv \in StartEnvs
    /\ ret = "nil"
    /\ ops = 0
    /\ call = NoCall
    /\ used = NoUse
    /\ requested = [f \in {ENV, JSON} |-> NoRequest]
    /\ merged = ZeroOf(Config)
    /\ allOk = TRUE
    /\ pc = "calls"
    /\ IdleLoad /\ IdleJson /\ IdleNumber /\ IdleMerge /\ IdleOp

Running == ret # "panic" /\ ops < MaxOps

\* g.SetConfigFiles(srcFiles...)
SetConfigFiles(srcFiles) ==
    /\ Running
    /\ ConfigFiles' = srcFiles
    /\ ret' = "nil"
    /\ ops' = ops + 1
    /\ UNCHANGED <<value, globalDecodeOpt, osEnv, call, used, requested, merged, allOk>>

\* g.globalDecodeOpt = do (the assignments of gathuk_test.go)
SetGlobalDecodeOpt(do) ==
    /\ Running
    /\ globalDecodeOpt' = do
    /\ ret' = "nil"
    /\ ops' = ops + 1
    /\ UNCHANGED <<value, ConfigFiles, osEnv, call, used, requested, merged, allOk>>

\* g.SetDecodeOption(format, do): the options are applied to the codec that
\* the registry returns, which for a built-in format is a new codec that
\* nothing keeps; an unknown format panics
SetDecodeOption(format, do) ==
    /\ Running
    /\ \E look \in {codec(RegisteredCodecs, format)} :
         /\ ret' = IF look.found THEN "nil" ELSE "panic"
         /\ requested' = IF look.found
                         THEN [requested EXCEPT ![ToLower(format)] = [set |-> TRUE, do |-> do]]
                         ELSE requested
    /\ used' = NoUse
    /\ ops' = ops + 1
    /\ UNCHANGED <<value, ConfigFiles, globalDecodeOpt, osEnv, call, merged, allOk>>

\* g.LoadConfigFiles(srcFiles...)
LoadConfigFiles(srcFiles) ==
    /\ Running
    /\ \E conv \in UNION {ConversionsOf(TrimDots(Ext(f))) :
                              f \in {srcFiles[i] : i \in 1..Len(srcFiles)}
                                   \cup {ConfigFiles[i] : i \in 1..Len(ConfigFiles)}
                                   \cup {<<".", "e", "n", "v">>}} :
         \E st \in {loadFiles(resolveFilenames(ConfigFiles \o srcFiles), 1,
                               [value |-> value, osEnv |-> osEnv, ret |-> "nil",
                                used |-> used, log |-> <<>>,
                                globalDecodeOpt |-> globalDecodeOpt, conv |-> conv])} :
            /\ value' = st.value
            /\ osEnv' = st.osEnv
            /\ ret' = st.ret
            /\ used' = st.used
            /\ call' = [made |-> TRUE, stored |-> ConfigFiles, args |-> srcFiles,
                        log |-> [i \in 1..Len(st.log) |->
                                   [file |-> st.log[i].file, err |-> st.log[i].err]],
                        ret |-> st.ret]
            /\ merged' = mergedAfter(st.log, 1, globalDecodeOpt, conv, merged)
            /\ allOk' = (allOk /\ st.ret = "nil")
    /\ ops' = ops + 1
    /\ UNCHANGED <<ConfigFiles, globalDecodeOpt, requested>>

\* g.LoadConfig(src, format) for a source with the given content
LoadConfig(content, reader, format) ==
    /\ Running
    /\ \E conv \in ConversionsOf(format) :
         \E r \in {load(RegisteredCodecs, globalDecodeOpt, content, reader, format,
                         value, osEnv, conv)},
            z \in {load(RegisteredCodecs, globalDecodeOpt, content, reader, format,
                         ZeroOf(Config), osEnv, conv)} :
            /\ value' = r.value
            /\ osEnv' = r.osEnv
            /\ ret' = returned(r)
            /\ used' = IF r.decoded THEN [format |-> ToLower(format), do |-> r.do] ELSE used
            /\ merged' = KeepNonZero(Config, merged, z.value)
            /\ allOk' = (allOk /\ ~r.err /\ ~r.panic)
    /\ ops' = ops + 1
    /\ UNCHANGED <<ConfigFiles, globalDecodeOpt, call, requested>>

\* what the calls on a Gathuk leave alone
outsideGathuk == <<pc, loadVars, jsonVars, numberVars, mergeVars, opVars>>

Next ==
    \/ \E srcFiles \in SeqsUpTo(StoredNames, MaxStored) :
         SetConfigFiles(srcFiles) /\ UNCHANGED outsideGathuk
    \/ \E do \in GlobalSamples :
         SetGlobalDecodeOpt(do) /\ UNCHANGED outsideGathuk
    \/ \E format \in Formats, do \in OptionSamples :
         SetDecodeOption(format, do) /\ UNCHANGED outsideGathuk
    \/ \E srcFiles \in SeqsUpTo(ArgNames, MaxFiles) :
         LoadConfigFiles(srcFiles) /\ UNCHANGED outsideGathuk
    \/ \E content \in LoadContents, reader \in ReaderKinds, format \in Formats :
         LoadConfig(content, reader, format) /\ UNCHANGED outsideGathuk

Spec == Init /\ [][Next]_vars

\* C1: after any sequence of successful loads every leaf of the record holds
\* the value of the latest load that supplied a non-zero value for it: the
\* record is the one that the merge rule of the documentation gives
C1_LatestNonZeroKept == allOk => value = merged

\* C3: a decoding of a format for which SetDecodeOption was called before
\* works with the options of that call
C3_FormatOptionUsed ==
    (used.format \in DOMAIN requested /\ requested[used.format].set)
        => used.do = requested[used.format].do

\* the files that a LoadConfigFiles call has to decode: the stored names,
\* then the arguments, and ".env" when there is none
FilesOf(c) ==
    IF c.stored \o c.args = <<>> THEN <<<<".", "e", "n", "v">>>> ELSE c.stored \o c.args

\* C8: LoadConfigFiles decodes the stored files and then its arguments in
\* the given order (".env" when there is none), a file only after the files
\* before it decoded without error; it returns the error of the first file
\* that fails and decodes no file after it
C8_FilesInOrder ==
    call.made =>
        /\ Len(call.log) >= 1
        /\ Len(call.log) <= Len(FilesOf(call))
        /\ \A k \in 1..Len(call.log) : call.log[k].file = FilesOf(call)[k]
        /\ \A k \in 1..(Len(call.log) - 1) : ~call.log[k].err
        /\ IF call.log[Len(call.log)].err
           THEN call.ret # "nil"
           ELSE call.ret = "nil" /\ Len(call.log) = Len(FilesOf(call))

\* a call with a stored file and two arguments whose second file failed, so
\* that the third was left alone
C8_Witness ==
    /\ call.made
    /\ Len(call.stored) = 1 /\ Len(call.args) = 2
    /\ Len(call.log) = 2
    /\ call.log[2].err
    /\ call.ret = "error"

(***************************************************************************)
(* One load of a line-format source: the record, the decode options, the   *)
(* process environment and the content of the source are drawn at the      *)
(* start, and g.LoadConfig(src, "env") is the one call.                    *)
(***************************************************************************)

\* the bound on the number of lines of the source
MaxLines == 2

DEBUG == <<"D", "E", "B", "U", "G">>
DB_USER == <<"D", "B", "_", "U", "S", "E", "R">>

\* the lines of the sources: PORT=8080, HOST=web, HOST= (an empty value),
\* DEBUG=true, DB_USER=u and =x (an empty name)
SourceLines ==
    {PORT \o <<"=", "8", "0", "8", "0">>,
     HOST \o <<"=", "w", "e", "b">>,
     HOST \o <<"=">>,
     DEBUG \o <<"=", "t", "r", "u", "e">>,
     DB_USER \o <<"=", "u">>,
     <<"=", "x">>}

Sources == {JoinLines(ls) : ls \in SeqsUpTo(SourceLines, MaxLines)}

\* a record with every leaf set
Populated ==
    [Port |-> IntToBig(1), Host |-> <<"o", "l", "d">>, Debug |-> TRUE,
     Database |-> [User |-> <<"r">>]]

InitLoad ==
    /\ value \in {ZeroOf(Config), Populated}
    /\ globalDecodeOpt \in DecodeOption
    /\ osEnv \in Envs
    /\ merged = value
    /\ src \in Sources
    /\ before = NoBefore
    /\ pc = "load"
    /\ IdleGathuk /\ IdleJson /\ IdleNumber /\ IdleMerge /\ IdleOp

\* g.LoadConfig(src, "env") from a reader of the given kind
LoadSource(reader) ==
    /\ pc = "load"
    /\ LoadConfig(src, reader, ENV)
    /\ before' = [value |-> value, osEnv |-> osEnv]
    /\ pc' = "loaded"
    /\ UNCHANGED <<src, jsonVars, numberVars, mergeVars, opVars>>

NextLoad == \E reader \in ReaderKinds : LoadSource(reader)

SpecLoad == InitLoad /\ [][NextLoad]_vars

\* the table of the names that the content defines, each with the value of
\* its last line
FileTable(content) ==
    decodeLines(Split(content, "\n"), 1, EmptyMap, EmptyMap, ZeroDecodeOption).temp

\* whether Decode reaches the scan of the record: under PersistToOSEnv it
\* returns before the scan when os.Setenv fails
Scans(content, do) == ~decodeLines(Split(content, "\n"), 1, EmptyMap, EmptyMap, do).aborted

\* the names of the leaves of Config and the leaf of a record for a name
LeafNames == {PORT, HOST, DEBUG, DB_USER}

Leaf(v, name) ==
    CASE name = PORT -> v.Port
      [] name = HOST -> v.Host
      [] name = DEBUG -> v.Debug
      [] name = DB_USER -> v.Database.User

\* the record that results from old when the scan resolves the names of
\* table to the values of table
Resolved(old, table) == scanWithNestedPrefix(Config, old, table).val

\* environment first: the value of the environment for a name that is set
\* and not empty there, else the value of the file
EnvFirst(file, env) ==
    [n \in {m \in DOMAIN env : env[m] # <<>>} \cup DOMAIN file |->
        IF n \in DOMAIN env /\ env[n] # <<>> THEN env[n] ELSE file[n]]

\* file first: the value of the file for a name that the file defines, else
\* the value of the environment
FileFirst(file, env) ==
    [n \in DOMAIN file \cup DOMAIN env |-> IF n \in DOMAIN file THEN file[n] ELSE env[n]]

\* C2: with AutomaticEnv and without PreferFileOverEnv a name resolves to
\* the value of the environment when the variable is set and not empty, and
\* to the value of the file otherwise (stated for loads that do not write
\* the file's values to the environment)
C2_EnvWinsUnlessEmpty ==
    (/\ pc = "loaded"
     /\ globalDecodeOpt.AutomaticEnv
     /\ ~globalDecodeOpt.PreferFileOverEnv
     /\ ~globalDecodeOpt.PersistToOSEnv)
        => value = Resolved(before.value, EnvFirst(FileTable(src), before.osEnv))

\* C4: the record that a load produces is the same with PersistToOSEnv set
\* and cleared, everything else being equal
C4_PersistIndependent ==
    pc = "loaded" =>
        \A p \in BOOLEAN :
            load(RegisteredCodecs, [globalDecodeOpt EXCEPT !.PersistToOSEnv = p], src,
                 "ReadFrom", ENV, before.value, before.osEnv, "indefinite").value = value

C10_EnvironmentIgnored ==
    (pc = "loaded" /\ ~globalDecodeOpt.AutomaticEnv)
        => /\ \A env \in Envs :
                load(RegisteredCodecs, globalDecodeOpt, src, "ReadFrom", ENV,
                     before.value, env, "indefinite").value = value
           /\ \A name \in LeafNames \ DOMAIN FileTable(src) :
                Leaf(value, name) = Leaf(before.value, name)

\* a load of a file that defines PORT and not HOST, in an environment where
\* HOST is set: the port is the file's and the host is left alone
C10_Witness ==
    /\ pc = "loaded"
    /\ ~globalDecodeOpt.AutomaticEnv
    /\ HOST \in DOMAIN before.osEnv
    /\ before.osEnv[HOST] # <<>>
    /\ HOST \notin DOMAIN FileTable(src)
    /\ PORT \in DOMAIN FileTable(src)
    /\ value.Port = IntToBig(8080)
    /\ before.value = Populated
    /\ value.Host = Populated.Host

\* C11: after a successful load with PersistToOSEnv every name that the
\* content defines is in the process environment with the value the content
\* gives it; without PersistToOSEnv the load leaves the environment as it was
C11_PersistedToEnvironment ==
    (pc = "loaded" /\ ret = "nil")
        => IF globalDecodeOpt.PersistToOSEnv
           THEN \A n \in DOMAIN FileTable(src) :
                   n \in DOMAIN osEnv /\ osEnv[n] = FileTable(src)[n]
           ELSE osEnv = before.osEnv

(***************************************************************************)
(* The round trip of a tree through serialize, Tokenize and Parser.        *)
(***************************************************************************)

\* the bound on the number of items of an array and of keys of an object
MaxItems == 2

\* the float64 that the decimal text s denotes
Num(s) == ParseFloat(s).f

\* strings without and with the bytes that serialize escapes
StringSamples ==
    {<<>>, <<"a">>, <<"a", " ", "b">>, <<"\"">>, <<"\\">>, <<"\n">>, <<"\t">>, <<"\r">>,
     <<"a", "\\">>, <<"a", "\"", "b">>}

NumberSamples == {Num(<<"0">>), Num(<<"1", ".", "5">>), Num(<<"-", "2">>),
                  Num(<<"1", "0", "0", "0", "0", "0", "0">>)}

\* the items of the arrays and the values of the objects
Items ==
    <<StringNode(<<"a">>), StringNode(<<"\n">>), NumberNode(Num(<<"1", ".", "5">>)),
      BooleanNode(TRUE), NullNode, ArrayNode(<<>>),
      ObjectNode((<<"k">> :> NumberNode(Num(<<"-", "2">>))))>>

KeySamples == {<<"k">>, <<"q", "\"">>}

\* tree is a leaf, an array of at most MaxItems items or an object with keys
\* of KeySamples
IsSampleTree(tree) ==
    \/ \E s \in StringSamples : tree = StringNode(s)
    \/ \E f \in NumberSamples : tree = NumberNode(f)
    \/ \E b \in BOOLEAN : tree = BooleanNode(b)
    \/ tree = NullNode
    \/ \E q \in SeqsUpTo(DOMAIN Items, MaxItems) :
          tree = ArrayNode([k \in 1..Len(q) |-> Items[q[k]]])
    \/ \E K \in SUBSET KeySamples : \E f \in [K -> DOMAIN Items] :
          tree = ObjectNode([k \in K |-> Items[f[k]]])

InitJson ==
    /\ IsSampleTree(rtTree)
    /\ rtBytes = NoBytes /\ rtTokens = NoTokens /\ rtParsed = NoParsed
    /\ pc = "tree"
    /\ value = ZeroOf(Config) /\ globalDecodeOpt = ZeroDecodeOption /\ osEnv = EmptyMap
    /\ merged = ZeroOf(Config)
    /\ IdleGathuk /\ IdleLoad /\ IdleNumber /\ IdleMerge /\ IdleOp

\* b := serialize(rtTree)
Serialize ==
    /\ pc = "tree"
    /\ \E b \in serialize(rtTree) : rtBytes' = [b |-> b, cap |-> BufferCap(Len(b))]
    /\ pc' = "bytes"
    /\ UNCHANGED <<rtTree, rtTokens, rtParsed>>

\* tokens, err := Tokenize(b)
TokenizeBytes ==
    /\ pc = "bytes"
    /\ rtTokens' = Tokenize(rtBytes.b, rtBytes.cap)
    /\ pc' = IF rtTokens'.err \/ rtTokens'.panic THEN "failed" ELSE "tokens"
    /\ UNCHANGED <<rtTree, rtBytes, rtParsed>>

\* node, err := Parser(tokens)
ParseTokens ==
    /\ pc = "tokens"
    /\ rtParsed' = Parser(rtTokens.tokens)
    /\ pc' = IF rtParsed'.err THEN "failed" ELSE "parsed"
    /\ UNCHANGED <<rtTree, rtBytes, rtTokens>>

outsideJson == <<gathukVars, loadVars, numberVars, mergeVars, opVars>>

NextJson ==
    \/ Serialize /\ UNCHANGED outsideJson
    \/ TokenizeBytes /\ UNCHANGED outsideJson
    \/ ParseTokens /\ UNCHANGED outsideJson

SpecJson == InitJson /\ [][NextJson]_vars

RECURSIVE SameTree(_, _)
\* two trees are structurally equal, the order of the keys of an object
\* playing no part
SameTree(a, b) ==
    /\ a.t = b.t
    /\ CASE a.t = "Null" -> TRUE
         [] a.t = "Number" -> FloatEq(a.v, b.v)
         [] a.t = "Array" ->
              /\ Len(a.v) = Len(b.v)
              /\ \A i \in 1..Len(a.v) : SameTree(a.v[i], b.v[i])
         [] a.t = "Object" ->
              /\ DOMAIN a.v = DOMAIN b.v
              /\ \A k \in DOMAIN a.v : SameTree(a.v[k], b.v[k])
         [] OTHER -> a.v = b.v

\* C5: for every tree Parser(Tokenize(serialize(tree))) succeeds and gives a
\* tree structurally equal to the original
C5_RoundTrip == pc # "failed" /\ (pc = "parsed" => SameTree(rtParsed.node, rtTree))

(***************************************************************************)
(* numberValue for a number and an integer target.                         *)
(***************************************************************************)

\* float64 values at and around the limits of the integer kinds
TargetNumbers ==
    {Num(<<"0">>),
     Num(<<"-", "0">>),
     Num(<<"2", "0", "0">>),
     Num(<<"2", "0", "0", ".", "5">>),
     Num(<<"0", ".", "5">>),
     Num(<<"-", "1">>),
     Num(<<"1", "2", "7">>),
     Num(<<"1", "2", "8">>),
     Num(<<"-", "1", "2", "8">>),
     Num(<<"-", "1", "2", "9">>),
     Num(<<"2", "5", "5">>),
     Num(<<"2", "5", "6">>),
     Num(<<"6", "5", "5", "3", "5">>),
     Num(<<"6", "5", "5", "3", "6">>),
     Num(<<"2", "1", "4", "7", "4", "8", "3", "6", "4", "7">>),
     Num(<<"2", "1", "4", "7", "4", "8", "3", "6", "4", "8">>),
     Num(<<"-", "2", "1", "4", "7", "4", "8", "3", "6", "4", "8">>),
     Num(<<"4", "2", "9", "4", "9", "6", "7", "2", "9", "5">>),
     Num(<<"4", "2", "9", "4", "9", "6", "7", "2", "9", "6">>),
     Num(<<"9", "2", "2", "3", "3", "7", "2", "0", "3", "6", "8", "5", "4", "7", "7", "5", "8", "0", "8">>),
     Num(<<"-", "9", "2", "2", "3", "3", "7", "2", "0", "3", "6", "8", "5", "4", "7", "7", "5", "8", "0", "8">>),
     Num(<<"1", "8", "4", "4", "6", "7", "4", "4", "0", "7", "3", "7", "0", "9", "5", "5", "1", "6", "1", "6">>),
     Num(<<"1", "e", "2", "0">>)}

InitNumber ==
    /\ numIn \in [f : TargetNumbers, kind : IntKinds \cup UintKinds,
                  conv : FloatToIntConversions]
    /\ numOut = NoResult
    /\ pc = "number"
    /\ value = ZeroOf(Config) /\ globalDecodeOpt = ZeroDecodeOption /\ osEnv = EmptyMap
    /\ merged = ZeroOf(Config)
    /\ IdleGathuk /\ IdleLoad /\ IdleJson /\ IdleMerge /\ IdleOp

\* c.numberValue(f, v, path) for a zero v of the kind
MapNumber ==
    /\ pc = "number"
    /\ numOut' = numberValue(numIn.f, numIn.kind, BigZero, numIn.conv)
    /\ pc' = "mapped"
    /\ UNCHANGED <<numIn, gathukVars, loadVars, jsonVars, mergeVars, opVars>>

NextNumber == MapNumber

SpecNumber == InitNumber /\ [][NextNumber]_vars

\* f has no fraction
IsIntegral(f) == Len(f.d) <= f.dp \/ f.d = <<>>

\* the integer that an integral f is
IntegerOf(f) == [neg |-> FloatNegative(f), d |-> f.d \o Zeros(f.dp - Len(f.d))]

\* n lies in the range of the integer kind
InRange(n, kind) ==
    IF kind \in IntKinds
    THEN IF n.neg THEN ~MagLess(Pow2(BitsOf(kind) - 1), n.d)
         ELSE MagLess(n.d, Pow2(BitsOf(kind) - 1))
    ELSE ~n.neg /\ MagLess(n.d, Pow2(BitsOf(kind)))

\* C6: a number goes into an integer target exactly when it has no fraction
\* and lies in the range of the target's type, and the target then holds
\* that number; every other number gives an error
C6_IntegerExactOrError ==
    pc = "mapped" =>
        IF IsIntegral(numIn.f) /\ InRange(IntegerOf(numIn.f), numIn.kind)
        THEN ~numOut.err /\ numOut.val = IntegerOf(numIn.f)
        ELSE numOut.err

(***************************************************************************)
(* mergeStruct(dst, src) for two records of one struct type.               *)
(***************************************************************************)

\* reflect.DeepEqual for two values of the type: a nil slice, map or pointer
\* equals only a nil one
RECURSIVE DeepEqual(_, _, _)
DeepEqual(type, a, b) ==
    CASE type.kind = "slice" ->
           /\ a.nil = b.nil
           /\ Len(a.elems) = Len(b.elems)
           /\ \A i \in 1..Len(a.elems) : DeepEqual(type.elem, a.elems[i], b.elems[i])
      [] type.kind = "map" ->
           /\ a.nil = b.nil
           /\ DOMAIN a.m = DOMAIN b.m
           /\ \A k \in DOMAIN a.m : DeepEqual(type.elem, a.m[k], b.m[k])
      [] type.kind = "ptr" ->
           IF a.nil \/ b.nil THEN a.nil /\ b.nil
           ELSE DeepEqual(type.elem, a.elem, b.elem)
      [] type.kind = "struct" ->
           \A i \in 1..Len(type.fields) :
              DeepEqual(type.fields[i].type, a[type.fields[i].id], b[type.fields[i].id])
      [] OTHER -> a = b

\* isZeroValue(v)
isZeroValue(type, v) == DeepEqual(type, v, ZeroOf(type))

RECURSIVE mergeFields(_, _, _, _)

\* a merge that adds the elements of a source sequence to the ones of the
\* destination
mergeFieldAppending(sf, dv, sv) ==
    IF ~IsExported(sf) THEN dv
    ELSE IF sf.type.kind = "struct"
    THEN [dv EXCEPT ![sf.id] = mergeFields(sf.type, dv[sf.id], sv[sf.id], 1)]
    ELSE IF sf.type.kind = "slice" /\ ~isZeroValue(sf.type, sv[sf.id])
    THEN [dv EXCEPT ![sf.id] = [nil |-> FALSE, elems |-> dv[sf.id].elems \o sv[sf.id].elems]]
    ELSE IF ~isZeroValue(sf.type, sv[sf.id]) THEN [dv EXCEPT ![sf.id] = sv[sf.id]]
    ELSE dv

\* the body of the loop of mergeStruct for the field sf: a field that cannot
\* be set (an unexported one) is left alone
mergeField(sf, dv, sv) ==
    IF ~IsExported(sf) THEN dv
    ELSE IF sf.type.kind = "struct"
    THEN [dv EXCEPT ![sf.id] = mergeFields(sf.type, dv[sf.id], sv[sf.id], 1)]
    ELSE IF ~isZeroValue(sf.type, sv[sf.id]) THEN [dv EXCEPT ![sf.id] = sv[sf.id]]
    ELSE dv

\* the loop of mergeStruct from field i
mergeFields(type, dv, sv, i) ==
    IF i > Len(type.fields) THEN dv
    ELSE mergeFields(type, mergeField(type.fields[i], dv, sv), sv, i + 1)

\* g.mergeStruct(dst, src): dst after the call, which returns nil
mergeStruct(type, dv, sv) == mergeFields(type, dv, sv, 1)

StringType == [kind |-> "string"]
IntType == [kind |-> "int"]

\* type Settings struct { Port int; Host string; Debug bool; Tags []string;
\*                        Labels map[string]string; Limit *int;
\*                        Database Database; secret string }
Settings ==
    [kind |-> "struct", name |-> <<"S", "e", "t", "t", "i", "n", "g", "s">>,
     fields |-> <<Field("Port", <<"P", "o", "r", "t">>, IntType, <<>>, <<>>),
                  Field("Host", <<"H", "o", "s", "t">>, StringType, <<>>, <<>>),
                  Field("Debug", <<"D", "e", "b", "u", "g">>, [kind |-> "bool"], <<>>, <<>>),
                  Field("Tags", <<"T", "a", "g", "s">>,
                        [kind |-> "slice", elem |-> StringType], <<>>, <<>>),
                  Field("Labels", <<"L", "a", "b", "e", "l", "s">>,
                        [kind |-> "map", key |-> StringType, elem |-> StringType],
                        <<>>, <<>>),
                  Field("Limit", <<"L", "i", "m", "i", "t">>,
                        [kind |-> "ptr", elem |-> IntType], <<>>, <<>>),
                  Field("Database", <<"D", "a", "t", "a", "b", "a", "s", "e">>,
                        Database, <<>>, <<>>),
                  Field("secret", <<"s", "e", "c", "r", "e", "t">>, StringType,
                        <<>>, <<>>)>>]

\* the values of the fields of the records
FieldSamples ==
    [Port |-> {BigZero, IntToBig(8080)},
     Host |-> {<<>>, <<"x">>},
     Debug |-> BOOLEAN,
     Tags |-> {[nil |-> TRUE, elems |-> <<>>], [nil |-> FALSE, elems |-> <<>>],
               [nil |-> FALSE, elems |-> << <<"a">> >>]},
     Labels |-> {[nil |-> TRUE, m |-> EmptyMap], [nil |-> FALSE, m |-> EmptyMap],
                 [nil |-> FALSE, m |-> (<<"k">> :> <<"v">>)]},
     Limit |-> {[nil |-> TRUE], [nil |-> FALSE, elem |-> BigZero],
                [nil |-> FALSE, elem |-> IntToBig(5)]},
     Database |-> {[User |-> <<>>], [User |-> <<"u">>]},
     secret |-> {<<>>, <<"s">>}]

\* a record with every field set
FullSettings ==
    [Port |-> IntToBig(8080), Host |-> <<"x">>, Debug |-> TRUE,
     Tags |-> [nil |-> FALSE, elems |-> << <<"a">> >>],
     Labels |-> [nil |-> FALSE, m |-> (<<"k">> :> <<"v">>)],
     Limit |-> [nil |-> FALSE, elem |-> IntToBig(5)],
     Database |-> [User |-> <<"u">>], secret |-> <<"s">>]

\* the records: the zero record and the full one, and those that differ from
\* one of them in one field
SettingsSamples ==
    UNION {{[base EXCEPT ![id] = v] : v \in FieldSamples[id]} :
              base \in {ZeroOf(Settings), FullSettings}, id \in DOMAIN FieldSamples}

InitMerge ==
    /\ mergeDst \in SettingsSamples
    /\ mergeSrc \in SettingsSamples
    /\ mergeOut = NoRecord
    /\ pc = "merge"
    /\ value = ZeroOf(Config) /\ globalDecodeOpt = ZeroDecodeOption /\ osEnv = EmptyMap
    /\ merged = ZeroOf(Config)
    /\ IdleGathuk /\ IdleLoad /\ IdleJson /\ IdleNumber /\ IdleOp

\* g.mergeStruct(&dst, &src)
MergeStruct ==
    /\ pc = "merge"
    /\ mergeOut' = mergeStruct(Settings, mergeDst, mergeSrc)
    /\ pc' = "merged"
    /\ UNCHANGED <<mergeDst, mergeSrc, gathukVars, loadVars, jsonVars, numberVars, opVars>>

NextMerge == MergeStruct

SpecMerge == InitMerge /\ [][NextMerge]_vars

\* zero as the merge rule counts it: the empty string, 0, false, a nil
\* pointer, and a sequence or a map without elements, nil or not
CountsAsZero(type, v) ==
    CASE type.kind = "slice" -> Len(v.elems) = 0
      [] type.kind = "map" -> DOMAIN v.m = {}
      [] type.kind = "ptr" -> v.nil
      [] OTHER -> v = ZeroOf(type)

RECURSIVE MergeRule(_, _, _)
\* dst after the merge rule: a field that is not a record has the value of
\* src when that counts as non-zero and keeps its value otherwise, a record
\* field is merged by the same rule (a field that is not exported is not
\* part of the merge)
MergeRule(type, d, s) ==
    [id \in DOMAIN d |->
        LET sf == CHOOSE x \in {type.fields[i] : i \in 1..Len(type.fields)} : x.id = id
        IN IF ~IsExported(sf) THEN d[id]
           ELSE IF sf.type.kind = "struct" THEN MergeRule(sf.type, d[id], s[id])
           ELSE IF CountsAsZero(sf.type, s[id]) THEN d[id] ELSE s[id]]

\* C7: mergeStruct(dst, src) leaves dst as the merge rule says
C7_MergeSkipsZero ==
    pc = "merged" => mergeOut = MergeRule(Settings, mergeDst, mergeSrc)

(***************************************************************************)
(* LoadConfigFiles on a Gathuk[T] whose T is any or a map type.            *)
(***************************************************************************)

AnyType == [kind |-> "interface"]
MapStringString == [kind |-> "map", key |-> StringType, elem |-> StringType]
MapStringAny == [kind |-> "map", key |-> StringType, elem |-> AnyType]

\* the end of load for a Gathuk[T] with T the given type: dc.Decode(by, val)
decodeInto(type, dc, by, val, env, conv) ==
    IF dc.kind = "dotenv"
    THEN dotenvLoaded(dotenvDecode(type, dc.temp, dc.do, by.b, env, val), dc.do)
    ELSE loaded(jsonDecode(type, by, val, conv), env, dc.do)

\* Gathuk[T].loadFile(file.name, &g.value) for a file that exists, with the
\* default registry
loadFileInto(type, file, globalOpt, val, env, conv) ==
    decodeInto(type,
               ApplyDecodeOption(codec(RegisteredCodecs, TrimDots(Ext(file.name))).c,
                                 globalOpt),
               bufferBytes(file.content, "ReadFrom"), val, env, conv)

RECURSIVE loadFilesInto(_, _, _, _)

\* the loop of LoadConfigFiles after file i gave r
loadedInto(type, files, i, st, r) ==
    IF r.err \/ r.panic
    THEN [st EXCEPT !.value = r.value, !.osEnv = r.osEnv, !.ret = returned(r)]
    ELSE loadFilesInto(type, files, i + 1,
                       [st EXCEPT !.value = r.value, !.osEnv = r.osEnv,
                                  !.envs = Append(st.envs, st.osEnv)])

\* the loop of Gathuk[T].LoadConfigFiles from file i; st.envs holds the
\* environment before every file decoded
loadFilesInto(type, files, i, st) ==
    IF i > Len(files) THEN st
    ELSE loadedInto(type, files, i, st,
                    loadFileInto(type, files[i], st.globalDecodeOpt, st.value, st.osEnv,
                                 "indefinite"))

\* the names and values of the lines of the files
TableLines ==
    {PORT \o <<"=", "8", "0", "8", "0">>,
     HOST \o <<"=", "w", "e", "b">>,
     DB_USER \o <<"=", "u">>,
     <<"=", "x">>}

\* {"port": 1}, {"host": "x"}, {"port": 1, "debug": true} and {}
TableObjects ==
    {<<"{", "\"", "p", "o", "r", "t", "\"", ":", " ", "1", "}">>,
     <<"{", "\"", "h", "o", "s", "t", "\"", ":", " ", "\"", "x", "\"", "}">>,
     <<"{", "\"", "p", "o", "r", "t", "\"", ":", " ", "1", ",", " ",
       "\"", "d", "e", "b", "u", "g", "\"", ":", " ", "t", "r", "u", "e", "}">>,
     <<"{", "}">>}

\* the files x.env and x.json for a base name x
TableFiles(x) ==
    {[name |-> x \o <<".", "e", "n", "v">>, content |-> JoinLines(ls)] :
        ls \in SeqsUpTo(TableLines, MaxLines)}
    \cup {[name |-> x \o <<".", "j", "s", "o", "n">>, content |-> c] : c \in TableObjects}

InitDynamic ==
    /\ opIn \in [type : {AnyType, MapStringString, MapStringAny},
                 files : {<<a, b>> : a \in TableFiles(<<"a">>), b \in TableFiles(<<"b">>)}]
    /\ opOut = NoOutput
    /\ heap = <<>>
    /\ value = ZeroOf(opIn.type)
    /\ globalDecodeOpt \in DecodeOption
    /\ osEnv \in {EmptyMap, HOST :> <<"e", "h">>}
    /\ merged = ZeroOf(Config)
    /\ pc = "dynamic"
    /\ IdleGathuk /\ IdleLoad /\ IdleJson /\ IdleNumber /\ IdleMerge

\* g.LoadConfigFiles(a, b) on a Gathuk[T]
LoadConfigFilesInto ==
    /\ pc = "dynamic"
    /\ \E st \in {loadFilesInto(opIn.type, opIn.files, 1,
                                [value |-> value, osEnv |-> osEnv, ret |-> "nil",
                                 envs |-> <<>>, globalDecodeOpt |-> globalDecodeOpt])} :
         /\ value' = st.value
         /\ osEnv' = st.osEnv
         /\ ret' = st.ret
         /\ opOut' = st.envs
    /\ pc' = "dynamicLoaded"
    /\ UNCHANGED <<ConfigFiles, globalDecodeOpt, ops, call, used, requested, merged, allOk,
                   opIn, heap, loadVars, jsonVars, numberVars, mergeVars>>

NextDynamic == LoadConfigFilesInto

SpecDynamic == InitDynamic /\ [][NextDynamic]_vars

\* the keys of a configuration of the type: of the map, or of the map that
\* an any holds
KeysOf(type, v) ==
    IF type.kind = "interface" THEN (IF v.dyn = "map" THEN DOMAIN v.v ELSE {})
    ELSE DOMAIN v.m

\* the keys of the table built while loading the file in the environment env:
\* the names of its lines and, under AutomaticEnv, of the environment after
\* the lines were read, or the keys of its object
TableKeys(file, env, do) ==
    IF TrimDots(Ext(file.name)) = ENV
    THEN DOMAIN FileTable(file.content)
         \cup (IF do.AutomaticEnv
               THEN DOMAIN decodeLines(Split(file.content, "\n"), 1, EmptyMap, env, do).env
               ELSE {})
    ELSE DOMAIN Parser(Tokenize(file.content, Len(file.content) + 8).tokens).node.v

\* C12: after a successful LoadConfigFiles(A, B) on a Gathuk[T] with T any or
\* a map the configuration has exactly the keys of the table built while
\* loading B, and no key that only the table of A has
C12_LastTableOnly ==
    (pc = "dynamicLoaded" /\ ret = "nil")
        => /\ KeysOf(opIn.type, value)
                = TableKeys(opIn.files[2], opOut[2], globalDecodeOpt)
           /\ \A k \in TableKeys(opIn.files[1], opOut[1], globalDecodeOpt)
                          \ TableKeys(opIn.files[2], opOut[2], globalDecodeOpt) :
                 k \notin KeysOf(opIn.type, value)

(***************************************************************************)
(* GetConfig and the caller's use of the value it returns.  Maps and the   *)
(* arrays of slices live in the heap; a map value is the address of its    *)
(* map (0: nil), a slice value the address of its array with len and cap.  *)
(***************************************************************************)

MaxWrites == 2

\* type User struct { Name string; Roles []string } of the tests
User == [kind |-> "struct", name |-> <<"U", "s", "e", "r">>]

NilMapRef == [ref |-> 0]
NilSliceRef == [ref |-> 0, len |-> 0, cap |-> 0]

CopyValues == {<<"a">>, <<"b">>}

\* the configurations a load leaves: a map[string]string, an any holding a
\* map, or a User, with their storage
CopyStates ==
    {[type |-> MapStringString, value |-> NilMapRef, heap |-> <<>>],
     [type |-> User, value |-> [Name |-> <<"a">>, Roles |-> NilSliceRef], heap |-> <<>>]}
    \cup {[type |-> MapStringString, value |-> [ref |-> 1], heap |-> <<[k \in ks |-> <<"a">>]>>] :
            ks \in SUBSET {HOST, PORT}}
    \cup {[type |-> AnyType, value |-> [dyn |-> "map", ref |-> 1],
           heap |-> <<[k \in ks |-> <<"a">>]>>] : ks \in SUBSET {HOST, PORT}}
    \cup {[type |-> User,
           value |-> [Name |-> <<"a">>, Roles |-> [ref |-> 1, len |-> Len(a), cap |-> Len(a)]],
           heap |-> <<a>>] : a \in SeqsUpTo(CopyValues, 2) \ {<<>>}}

\* what the holder of the value v sees through it
View(type, v, h) ==
    IF type.kind = "struct"
    THEN [Name |-> v.Name,
          Roles |-> IF v.Roles.ref = 0 THEN <<>> ELSE SubSeq(h[v.Roles.ref], 1, v.Roles.len)]
    ELSE IF v.ref = 0 THEN [nil |-> TRUE, m |-> EmptyMap]
    ELSE [nil |-> FALSE, m |-> h[v.ref]]

InitCopy ==
    /\ \E s \in CopyStates : opIn = s.type /\ value = s.value /\ heap = s.heap
    /\ opOut = NoOutput
    /\ osEnv = EmptyMap
    /\ globalDecodeOpt = ZeroDecodeOption
    /\ merged = ZeroOf(Config)
    /\ ret = "nil"
    /\ pc = "configured"
    /\ IdleGathuk /\ IdleLoad /\ IdleJson /\ IdleNumber /\ IdleMerge

outsideCopy ==
    <<gathukVars, opIn, loadVars, jsonVars, numberVars, mergeVars>>

\* config := g.GetConfig(): return g.value
GetConfig ==
    /\ pc = "configured"
    /\ opOut' = [got |-> value, first |-> View(opIn, value, heap), writes |-> 0]
    /\ pc' = "held"
    /\ UNCHANGED <<heap, outsideCopy>>

\* a later g.GetConfig()
GetConfigLater ==
    /\ pc = "held"
    /\ opOut' = [got |-> opOut.got, first |-> opOut.first, later |-> View(opIn, value, heap)]
    /\ pc' = "read"
    /\ UNCHANGED <<heap, outsideCopy>>

CallerWrites == pc = "held" /\ opOut.writes < MaxWrites

Written(got) == [opOut EXCEPT !.got = got, !.writes = @ + 1]

\* config[k] = x, or config.(map[string]any)[k] = x
SetMapKey ==
    /\ CallerWrites /\ opIn.kind # "struct" /\ opOut.got.ref # 0
    /\ \E k \in {HOST, PORT}, x \in CopyValues :
         heap' = [heap EXCEPT ![opOut.got.ref] = (k :> x) @@ @]
    /\ opOut' = Written(opOut.got)
    /\ UNCHANGED <<pc, outsideCopy>>

\* delete(config, k)
DeleteMapKey ==
    /\ CallerWrites /\ opIn.kind # "struct" /\ opOut.got.ref # 0
    /\ \E k \in {HOST, PORT} :
         heap' = [heap EXCEPT ![opOut.got.ref] = [n \in DOMAIN @ \ {k} |-> @[n]]]
    /\ opOut' = Written(opOut.got)
    /\ UNCHANGED <<pc, outsideCopy>>

\* config = map[string]string{}
AssignMap ==
    /\ CallerWrites /\ opIn.kind # "struct"
    /\ heap' = Append(heap, EmptyMap)
    /\ opOut' = Written([opOut.got EXCEPT !.ref = Len(heap) + 1])
    /\ UNCHANGED <<pc, outsideCopy>>

\* config.Name = x
SetName ==
    /\ CallerWrites /\ opIn.kind = "struct"
    /\ \E x \in CopyValues : opOut' = Written([opOut.got EXCEPT !.Name = x])
    /\ UNCHANGED <<pc, heap, outsideCopy>>

\* config.Roles[i] = x
SetElement ==
    /\ CallerWrites /\ opIn.kind = "struct"
    /\ \E i \in 1..opOut.got.Roles.len, x \in CopyValues :
         heap' = [heap EXCEPT ![opOut.got.Roles.ref][i] = x]
    /\ opOut' = Written(opOut.got)
    /\ UNCHANGED <<pc, outsideCopy>>

\* config.Roles = append(config.Roles, x): in place while the capacity
\* allows, else into a new array
AppendElement ==
    /\ CallerWrites /\ opIn.kind = "struct"
    /\ \E x \in CopyValues :
         LET s == opOut.got.Roles IN
         IF s.len < s.cap
         THEN /\ heap' = [heap EXCEPT ![s.ref][s.len + 1] = x]
              /\ opOut' = Written([opOut.got EXCEPT !.Roles.len = s.len + 1])
         ELSE /\ heap' = Append(heap,
                            (IF s.ref = 0 THEN <<>> ELSE SubSeq(heap[s.ref], 1, s.len))
                                \o <<x, <<>>>>)
              /\ opOut' = Written([opOut.got EXCEPT
                                      !.Roles = [ref |-> Len(heap) + 1, len |-> s.len + 1,
                                                 cap |-> s.len + 2]])
    /\ UNCHANGED <<pc, outsideCopy>>

NextCopy ==
    \/ GetConfig
    \/ GetConfigLater
    \/ SetMapKey
    \/ DeleteMapKey
    \/ AssignMap
    \/ SetName
    \/ SetElement
    \/ AppendElement

SpecCopy == InitCopy /\ [][NextCopy]_vars

\* C13: whatever the caller did to the value that GetConfig returned, a later
\* GetConfig returns what the first one returned
C13_GetConfigCopies == pc = "read" => opOut.later = opOut.first

(***************************************************************************)
(* nodeToValue for a Null leaf, on targets of every kind that hold a       *)
(* value: the target itself, a field of a record, an item of a slice, or   *)
(* the element of a map.                                                   *)
(***************************************************************************)

PointerToString == [kind |-> "ptr", elem |-> StringType]
SliceOfString == [kind |-> "slice", elem |-> StringType]

\* type Holder struct { V T }
HolderOf(type) ==
    [kind |-> "struct", name |-> <<"H", "o", "l", "d", "e", "r">>,
     fields |-> <<Field("V", <<"V">>, type, <<>>, <<>>)>>]

NullWraps == {"leaf", "field", "item", "key"}

\* the target that holds a value cur of the type at the place w, and the
\* tree with a Null for that place
Wrapped(w, type, cur) ==
    CASE w = "leaf" -> [wrap |-> w, type |-> type, cur |-> cur, node |-> NullNode]
      [] w = "field" ->
           [wrap |-> w, type |-> HolderOf(type), cur |-> [V |-> cur],
            node |-> ObjectNode(<<"v">> :> NullNode)]
      [] w = "item" ->
           [wrap |-> w, type |-> [kind |-> "slice", elem |-> type],
            cur |-> [nil |-> FALSE, elems |-> <<cur>>], node |-> ArrayNode(<<NullNode>>)]
      [] w = "key" ->
           [wrap |-> w, type |-> [kind |-> "map", key |-> StringType, elem |-> type],
            cur |-> [nil |-> FALSE, m |-> (<<"v">> :> cur)],
            node |-> ObjectNode(<<"v">> :> NullNode)]

Targeted(type, cur) == \E w \in NullWraps : opIn = Wrapped(w, type, cur)

InitNull ==
    /\ \/ \E s \in {<<"a">>, <<"a", "b">>, <<"0">>} : Targeted(StringType, s)
       \/ \E k \in IntKinds \cup UintKinds, n \in {1, 7, 100} :
            Targeted([kind |-> k], IntToBig(n))
       \/ \E k \in IntKinds : Targeted([kind |-> k], IntToBig(0 - 1))
       \/ \E k \in {"float32", "float64"}, f \in TargetNumbers : Targeted([kind |-> k], f)
       \/ Targeted([kind |-> "bool"], TRUE)
       \/ \E s \in SeqsUpTo({<<"a">>, <<"b">>}, 2) :
            Targeted(SliceOfString, [nil |-> FALSE, elems |-> s])
       \/ \E ks \in SUBSET {HOST, PORT} :
            Targeted(MapStringString, [nil |-> FALSE, m |-> [k \in ks |-> <<"a">>]])
       \/ \E s \in {<<"a">>, <<"b">>} : Targeted(Database, [User |-> s])
       \/ \E s \in {<<>>, <<"a">>} : Targeted(PointerToString, [nil |-> FALSE, elem |-> s])
       \/ \E s \in {<<"a">>, <<"b">>} : Targeted(AnyType, [dyn |-> "string", v |-> s])
       \/ \E b \in BOOLEAN : Targeted(AnyType, [dyn |-> "bool", v |-> b])
       \/ Targeted(AnyType, [dyn |-> "nil"])
    /\ opOut = NoOutput /\ heap = <<>>
    /\ pc = "null"
    /\ value = ZeroOf(Config) /\ globalDecodeOpt = ZeroDecodeOption /\ osEnv = EmptyMap
    /\ merged = ZeroOf(Config)
    /\ IdleGathuk /\ IdleLoad /\ IdleJson /\ IdleNumber /\ IdleMerge

\* c.nodeToValue(node, v, path) on a settable v
MapNull ==
    /\ pc = "null"
    /\ opOut' = nodeToValue(opIn.node, opIn.type, opIn.cur, TRUE, "indefinite")
    /\ pc' = "nulled"
    /\ UNCHANGED <<opIn, heap, gathukVars, loadVars, jsonVars, numberVars, mergeVars>>

NextNull == MapNull

SpecNull == InitNull /\ [][NextNull]_vars

\* the type and the value of the place that the Null was for
LeafType(in) ==
    CASE in.wrap = "leaf" -> in.type
      [] in.wrap = "field" -> in.type.fields[1].type
      [] OTHER -> in.type.elem

LeafValue(in, v) ==
    CASE in.wrap = "leaf" -> v
      [] in.wrap = "field" -> v.V
      [] in.wrap = "item" -> v.elems[1]
      [] in.wrap = "key" -> v.m[<<"v">>]

\* C14: mapping a Null onto a settable target of any kind returns no error
\* and leaves the target with the zero value of its kind
C14_NullResets ==
    pc = "nulled"
        => /\ ~Panics(opOut)
           /\ ~opOut.err
           /\ LeafValue(opIn, opOut.val) = ZeroOf(LeafType(opIn))

(***************************************************************************)
(* One load of either format into a Config that holds values already.      *)
(***************************************************************************)

Quoted(s) == <<"\"">> \o s \o <<"\"">>

\* "port": 8080, "port": null, "host": "web", "debug": false, "database": {}
\* and "database": {"user": "u"}
ObjectMembers ==
    {Quoted(<<"p", "o", "r", "t">>) \o <<":", " ", "8", "0", "8", "0">>,
     Quoted(<<"p", "o", "r", "t">>) \o <<":", " ", "n", "u", "l", "l">>,
     Quoted(<<"h", "o", "s", "t">>) \o <<":", " ">> \o Quoted(<<"w", "e", "b">>),
     Quoted(<<"d", "e", "b", "u", "g">>) \o <<":", " ", "f", "a", "l", "s", "e">>,
     Quoted(<<"d", "a", "t", "a", "b", "a", "s", "e">>) \o <<":", " ", "{", "}">>,
     Quoted(<<"d", "a", "t", "a", "b", "a", "s", "e">>) \o <<":", " ", "{">>
        \o Quoted(<<"u", "s", "e", "r">>) \o <<":", " ">> \o Quoted(<<"u">>) \o <<"}">>}

RECURSIVE JoinMembers(_)
JoinMembers(ms) ==
    IF ms = <<>> THEN <<>>
    ELSE IF Len(ms) = 1 THEN ms[1]
    ELSE ms[1] \o <<",", " ">> \o JoinMembers(Tail(ms))

Objects == {<<"{">> \o JoinMembers(ms) \o <<"}">> : ms \in SeqsUpTo(ObjectMembers, MaxLines)}

InitPartial ==
    /\ \/ opIn = ENV /\ src \in Sources
       \/ opIn = JSON /\ src \in Objects
    /\ opOut = NoOutput /\ heap = <<>>
    /\ value = Populated
    /\ globalDecodeOpt \in DecodeOption
    /\ osEnv \in Envs
    /\ merged = value
    /\ before = NoBefore
    /\ pc = "partial"
    /\ IdleGathuk /\ IdleJson /\ IdleNumber /\ IdleMerge

\* g.LoadConfig(src, format) on a Gathuk[Config] that holds values
LoadOver ==
    /\ pc = "partial"
    /\ LoadConfig(src, "ReadFrom", opIn)
    /\ before' = [value |-> value, osEnv |-> osEnv]
    /\ pc' = "decoded"
    /\ UNCHANGED <<src, jsonVars, numberVars, mergeVars, opVars>>

NextPartial == LoadOver

SpecPartial == InitPartial /\ [][NextPartial]_vars

\* the flat table that the line-format Decode built for the load
TableOfLoad ==
    dotenvDecode(Config, EmptyMap, globalDecodeOpt, src, before.osEnv, before.value).temp

\* the object that the tree-format Decode parsed for the load
ObjectOfLoad == Parser(Tokenize(src, BufferCap(Len(src))).tokens).node

\* the nested object names no user, or the object no database
UserAbsent(node) ==
    \/ <<"d", "a", "t", "a", "b", "a", "s", "e">> \notin DOMAIN node.v
    \/ /\ node.v[<<"d", "a", "t", "a", "b", "a", "s", "e">>].t = "Object"
       /\ <<"u", "s", "e", "r">>
             \notin DOMAIN node.v[<<"d", "a", "t", "a", "b", "a", "s", "e">>].v

\* C15: after a successful decode into a record every field whose resolved
\* name is absent from the flat table (line format) or from the decoded
\* object (tree format) has the value it had before the decode
C15_PartialApplication ==
    (pc = "decoded" /\ ret = "nil")
        => IF opIn = ENV
           THEN \A n \in LeafNames :
                   n \notin DOMAIN TableOfLoad => Leaf(value, n) = Leaf(before.value, n)
           ELSE /\ \A i \in 1..3 :
                     jsonNameOf(Config.fields[i]) \notin DOMAIN ObjectOfLoad.v
                        => value[Config.fields[i].id] = before.value[Config.fields[i].id]
                /\ UserAbsent(ObjectOfLoad)
                     => value.Database.User = before.value.Database.User

\* a tree-format load that named host and debug only: they changed, and
\* the port and the user of the database are the ones from before
C15_Witness ==
    /\ pc = "decoded" /\ ret = "nil" /\ opIn = JSON
    /\ DOMAIN ObjectOfLoad.v = {<<"h", "o", "s", "t">>, <<"d", "e", "b", "u", "g">>}
    /\ value.Host = <<"w", "e", "b">> /\ value.Debug = FALSE
    /\ value.Port = Populated.Port /\ value.Database = Populated.Database

(***************************************************************************)
(* Decode and Encode of both codecs on a record with excluded fields.      *)
(***************************************************************************)

\* type WithInternal struct { Host string; Internal string `config:"-"`;
\*                            Database Database `config:"-"` }
WithInternal ==
    [kind |-> "struct",
     name |-> <<"W", "i", "t", "h", "I", "n", "t", "e", "r", "n", "a", "l">>,
     fields |-> <<Field("Host", <<"H", "o", "s", "t">>, StringType, <<>>, <<>>),
                  Field("Internal", <<"I", "n", "t", "e", "r", "n", "a", "l">>,
                        StringType, DASH, <<>>),
                  Field("Database", <<"D", "a", "t", "a", "b", "a", "s", "e">>,
                        Database, DASH, <<>>)>>]

ExcludeValues ==
    {[Host |-> h, Internal |-> <<"i", "n">>, Database |-> [User |-> <<"r">>]] :
        h \in {<<>>, <<"o", "l", "d">>}}

\* HOST=web, INTERNAL=x, -=x, -_USER=x, DATABASE_USER=x and USER=x
ExcludeLines ==
    {HOST \o <<"=", "w", "e", "b">>,
     <<"I", "N", "T", "E", "R", "N", "A", "L", "=", "x">>,
     <<"-", "=", "x">>,
     <<"-", "_", "U", "S", "E", "R", "=", "x">>,
     <<"D", "A", "T", "A", "B", "A", "S", "E", "_", "U", "S", "E", "R", "=", "x">>,
     <<"U", "S", "E", "R", "=", "x">>}

\* "host": "web", "internal": "x", "-": "x", "database": {"user": "x"} and
\* "-": {"user": "x"}
ExcludeMembers ==
    {Quoted(<<"h", "o", "s", "t">>) \o <<":", " ">> \o Quoted(<<"w", "e", "b">>),
     Quoted(<<"i", "n", "t", "e", "r", "n", "a", "l">>) \o <<":", " ">> \o Quoted(<<"x">>),
     Quoted(<<"-">>) \o <<":", " ">> \o Quoted(<<"x">>),
     Quoted(<<"d", "a", "t", "a", "b", "a", "s", "e">>) \o <<":", " ", "{">>
        \o Quoted(<<"u", "s", "e", "r">>) \o <<":", " ">> \o Quoted(<<"x">>) \o <<"}">>,
     Quoted(<<"-">>) \o <<":", " ", "{">>
        \o Quoted(<<"u", "s", "e", "r">>) \o <<":", " ">> \o Quoted(<<"x">>) \o <<"}">>}

InitExclude ==
    /\ \/ opIn = [op |-> "decode", format |-> ENV]
            /\ src \in {JoinLines(ls) : ls \in SeqsUpTo(ExcludeLines, MaxLines)}
       \/ opIn = [op |-> "decode", format |-> JSON]
            /\ src \in {<<"{">> \o JoinMembers(ms) \o <<"}">> :
                           ms \in SeqsUpTo(ExcludeMembers, MaxLines)}
       \/ opIn \in [op : {"encode"}, format : {ENV, JSON}] /\ src = NoSource
    /\ value \in ExcludeValues
    /\ globalDecodeOpt \in DecodeOption
    /\ osEnv \in {EmptyMap, HOST :> <<"e", "h">>}
    /\ opOut = NoOutput /\ heap = <<>>
    /\ merged = ZeroOf(Config)
    /\ before = NoBefore
    /\ pc = "exclude"
    /\ IdleGathuk /\ IdleJson /\ IdleNumber /\ IdleMerge

outsideCodec == <<gathukVars, src, opIn, heap, jsonVars, numberVars, mergeVars>>

\* the Decode of the codec of the format, through a load of the content
DecodeExcluding ==
    /\ pc = "exclude" /\ opIn.op = "decode"
    /\ \E r \in {loadFileInto(WithInternal,
                              [name |-> <<"c", ".">> \o opIn.format, content |-> src],
                              globalDecodeOpt, value, osEnv, "indefinite")} :
         /\ value' = r.value
         /\ osEnv' = r.osEnv
         /\ ret' = returned(r)
    /\ before' = [value |-> value, osEnv |-> osEnv]
    /\ pc' = "excluded"
    /\ UNCHANGED <<ConfigFiles, globalDecodeOpt, ops, call, used, requested, merged, allOk,
                   src, opIn, opOut, heap, jsonVars, numberVars, mergeVars>>

\* the Encode of a new codec of the format on the value
EncodeExcluding ==
    /\ pc = "exclude" /\ opIn.op = "encode"
    /\ \E b \in (IF opIn.format = ENV THEN dotenvEncode(WithInternal, EmptyMap, value).out
                 ELSE jsonEncode(WithInternal, value).out) :
         opOut' = b
    /\ pc' = "excluded"
    /\ UNCHANGED <<gathukVars, loadVars, opIn, heap, jsonVars, numberVars, mergeVars>>

NextExclude ==
    \/ DecodeExcluding
    \/ EncodeExcluding

SpecExclude == InitExclude /\ [][NextExclude]_vars

\* the keys that encoded bytes of the format hold
EncodedKeys(format, b) ==
    IF format = ENV THEN DOMAIN FileTable(b)
    ELSE DOMAIN Parser(Tokenize(b, BufferCap(Len(b))).tokens).node.v

\* C16: a field whose config tag is "-" takes no part: a successful decode
\* of either format leaves the field as it was, whatever the input, and the
\* bytes of an encode hold no key but the ones of the other fields; for the
\* leaf Internal and the nested record Database alike
C16_ExcludedNeverParticipates ==
    (pc = "excluded" /\ ret = "nil")
        => IF opIn.op = "decode"
           THEN /\ value.Internal = before.value.Internal
                /\ value.Database = before.value.Database
           ELSE EncodedKeys(opIn.format, opOut)
                    \subseteq {HOST, <<"h", "o", "s", "t">>}

(***************************************************************************)
(* The line-format Encode of a Config, and the Decode of what it wrote.    *)
(***************************************************************************)

MirrorValues ==
    [Port : {IntToBig(0), IntToBig(8080), IntToBig(0 - 1)},
     Host : {<<>>, <<"w", "e", "b">>},
     Debug : BOOLEAN,
     Database : [User : {<<>>, <<"u">>}]]

InitMirror ==
    /\ value \in MirrorValues
    /\ opIn = NoInput /\ opOut = NoOutput /\ heap = <<>>
    /\ globalDecodeOpt = ZeroDecodeOption /\ osEnv = EmptyMap
    /\ merged = ZeroOf(Config)
    /\ pc = "mirror"
    /\ IdleGathuk /\ IdleLoad /\ IdleJson /\ IdleNumber /\ IdleMerge

\* by, err := codec.Encode(value) on a new line-format codec
EncodeRecord ==
    /\ pc = "mirror"
    /\ \E b \in dotenvEncode(Config, EmptyMap, value).out : opOut' = [b |-> b]
    /\ pc' = "encoded"
    /\ UNCHANGED <<gathukVars, loadVars, opIn, heap, jsonVars, numberVars, mergeVars>>

\* codec.Decode(by, &restored) on a new line-format codec and a zero record
DecodeEncoded ==
    /\ pc = "encoded"
    /\ \E r \in {dotenvDecode(Config, EmptyMap, ZeroDecodeOption, opOut.b, osEnv,
                              ZeroOf(Config))} :
         opOut' = [b |-> opOut.b, val |-> r.val, err |-> r.err]
    /\ pc' = "restored"
    /\ UNCHANGED <<gathukVars, loadVars, opIn, heap, jsonVars, numberVars, mergeVars>>

NextMirror ==
    \/ EncodeRecord
    \/ DecodeEncoded

SpecMirror == InitMirror /\ [][NextMirror]_vars

\* C17: the line-format Encode of a record writes a line for every leaf that
\* the scan of Decode reads, the leaves of nested records under their
\* prefix included, and Decode of the bytes restores the nested leaves
C17_EncodeMirrorsScan ==
    /\ pc \in {"encoded", "restored"} => DOMAIN FileTable(opOut.b) = LeafNames
    /\ pc = "restored"
          => ~opOut.err /\ opOut.val.Database.User = value.Database.User

(***************************************************************************)
(* The keys from which the line-format scan reads the leaves of records    *)
(* nested two deep, for every choice of tags.                              *)
(***************************************************************************)

\* type Pool struct { Server string `config:cl` }
PoolOf(cl) ==
    [kind |-> "struct", name |-> <<"P", "o", "o", "l">>,
     fields |-> <<Field("Server", <<"S", "e", "r", "v", "e", "r">>, StringType, cl, <<>>)>>]

\* type Database struct { User string `config:cm`;
\*                        MaxPool Pool `config:c2 nested:n2` }
DatabaseOf(tags) ==
    [kind |-> "struct", name |-> <<"D", "a", "t", "a", "b", "a", "s", "e">>,
     fields |-> <<Field("User", <<"U", "s", "e", "r">>, StringType, tags.cm, <<>>),
                  Field("MaxPool", <<"M", "a", "x", "P", "o", "o", "l">>,
                        PoolOf(tags.cl), tags.c2, tags.n2)>>]

\* type Simple2 struct { Debug string `config:ct`;
\*                       Database Database `config:c1 nested:n1` }
Simple2Of(tags) ==
    [kind |-> "struct", name |-> <<"S", "i", "m", "p", "l", "e", "2">>,
     fields |-> <<Field("Debug", <<"D", "e", "b", "u", "g">>, StringType, tags.ct, <<>>),
                  Field("Database", <<"D", "a", "t", "a", "b", "a", "s", "e">>,
                        DatabaseOf(tags), tags.c1, tags.n1)>>]

NestedTags == {<<>>, <<"d", "b">>}
ConfigTags == {<<>>, <<"c", "f">>}
LeafTags == {<<>>, <<"s", "r", "v">>}

TagChoices ==
    [n1 : NestedTags, c1 : ConfigTags, n2 : NestedTags, c2 : ConfigTags,
     ct : LeafTags, cm : LeafTags, cl : LeafTags]

\* the names that a field could be known by
NamesOf(sf) == {sf.nested, sf.config, sf.Name, PascalToUpperSnakeCase(sf.Name)} \ {<<>>}

RECURSIVE JoinNames(_)
JoinNames(ns) ==
    IF ns = <<>> THEN <<>>
    ELSE IF Len(ns) = 1 THEN ns[1]
    ELSE ns[1] \o <<"_">> \o JoinNames(Tail(ns))

\* the paths of fields from the record to its leaves
LeafPaths(type) ==
    LET top == type.fields[2]
        mid == top.type.fields[2]
    IN {<<type.fields[1]>>, <<top, top.type.fields[1]>>, <<top, mid, mid.type.fields[1]>>}

\* every key that some reading of the names of a path gives: any name of
\* every field, any part of the path left out, with and without a leading
\* '_', in upper case and as written
KeysOfPath(path) ==
    LET full == {[i \in 1..Len(path) |-> ns[i]] :
                    ns \in [1..Len(path) -> UNION {NamesOf(path[i]) : i \in 1..Len(path)}]}
        named == {ns \in full : \A i \in 1..Len(path) : ns[i] \in NamesOf(path[i])}
        parts == UNION {{SubSeq(ns, i, Len(ns)) : i \in 1..Len(ns)} : ns \in named}
        joined == {JoinNames(ns) : ns \in parts}
        both == joined \cup {<<"_">> \o k : k \in joined}
    IN both \cup {ToUpper(k) : k \in both}

\* a table with every such key, each with itself as its value
NameTable(type) ==
    [k \in UNION {KeysOfPath(path) : path \in LeafPaths(type)} |-> k]

InitNames ==
    /\ \E tags \in TagChoices : opIn = Simple2Of(tags)
    /\ opOut = NoOutput /\ heap = <<>>
    /\ value = ZeroOf(Config) /\ globalDecodeOpt = ZeroDecodeOption /\ osEnv = EmptyMap
    /\ merged = ZeroOf(Config)
    /\ pc = "names"
    /\ IdleGathuk /\ IdleLoad /\ IdleJson /\ IdleNumber /\ IdleMerge

\* c.scanWithNestedPrefix(&v) with the table in c.temp
ScanNames ==
    /\ pc = "names"
    /\ opOut' = scanWithNestedPrefix(opIn, ZeroOf(opIn), NameTable(opIn))
    /\ pc' = "named"
    /\ UNCHANGED <<gathukVars, loadVars, opIn, heap, jsonVars, numberVars, mergeVars>>

NextNames == ScanNames

SpecNames == InitNames /\ [][NextNames]_vars

\* the resolved name of a nested-record field: the nested tag, else the
\* primary tag, else the derived name; and of a leaf: the primary tag, else
\* the derived name
ResolvedName(sf) ==
    IF sf.type.kind = "struct" /\ sf.nested # <<>> THEN sf.nested
    ELSE IF sf.config # <<>> THEN sf.config
    ELSE PascalToUpperSnakeCase(sf.Name)

\* upper(n1_..._nk_m) for the path of a leaf
KeyOfPath(path) == ToUpper(JoinNames([i \in 1..Len(path) |-> ResolvedName(path[i])]))

\* C18: the scan reads a leaf from the key upper(n1_..._nk_m) of the resolved
\* names on its path, joined with '_' and with no leading '_'
C18_ComposedKey ==
    pc = "named"
        => /\ ~opOut.err
           /\ opOut.val.Debug = KeyOfPath(<<opIn.fields[1]>>)
           /\ opOut.val.Database.User
                 = KeyOfPath(<<opIn.fields[2], opIn.fields[2].type.fields[1]>>)
           /\ opOut.val.Database.MaxPool.Server
                 = KeyOfPath(<<opIn.fields[2], opIn.fields[2].type.fields[2],
                               opIn.fields[2].type.fields[2].type.fields[1]>>)

\* the leaf two records deep is read from DB_CF_SERVER: the nested tag db,
\* the primary tag cf of a field with no nested tag, and the derived name
C18_Witness ==
    /\ pc = "named"
    /\ opIn.fields[2].nested = <<"d", "b">>
    /\ opIn.fields[2].type.fields[2].nested = <<>>
    /\ opIn.fields[2].type.fields[2].config = <<"c", "f">>
    /\ opOut.val.Database.MaxPool.Server
          = <<"D", "B", "_", "C", "F", "_", "S", "E", "R", "V", "E", "R">>
    /\ opOut.val.Debug = DEBUG

(***************************************************************************)
(* The names derived from field names.                                     *)
(***************************************************************************)

MaxName == 4

ServerPort == <<"S", "e", "r", "v", "e", "r", "P", "o", "r", "t">>
APIKey == <<"A", "P", "I", "K", "e", "y">>

FieldNames ==
    {ServerPort, APIKey} \cup SeqsUpTo({"A", "K", "e", "y", "_", "1"}, MaxName)

InitSnake ==
    /\ opIn \in FieldNames
    /\ opOut = NoOutput /\ heap = <<>>
    /\ value = ZeroOf(Config) /\ globalDecodeOpt = ZeroDecodeOption /\ osEnv = EmptyMap
    /\ merged = ZeroOf(Config)
    /\ pc = "snake"
    /\ IdleGathuk /\ IdleLoad /\ IdleJson /\ IdleNumber /\ IdleMerge

\* utility.PascalToUpperSnakeCase(name) and utility.PascalToLowerSnakeCase(name)
DeriveNames ==
    /\ pc = "snake"
    /\ opOut' = [upper |-> PascalToUpperSnakeCase(opIn), lower |-> PascalToLowerSnakeCase(opIn)]
    /\ pc' = "snaked"
    /\ UNCHANGED <<gathukVars, loadVars, opIn, heap, jsonVars, numberVars, mergeVars>>

NextSnake == DeriveNames

SpecSnake == InitSnake /\ [][NextSnake]_vars

RECURSIVE Underscored(_, _)
\* the first n characters of s with '_' before every upper-case letter
\* but the first character
Underscored(s, n) ==
    IF n = 0 THEN <<>>
    ELSE Underscored(s, n - 1)
         \o (IF n > 1 /\ IsUpper(s[n]) THEN <<"_">> ELSE <<>>) \o <<s[n]>>

ReuseLines ==
    {PORT \o <<"=", "8", "0", "8", "0">>,
     HOST \o <<"=", "w", "e", "b">>,
     DB_USER \o <<"=", "u">>}

ReuseSources == {JoinLines(ls) : ls \in SeqsUpTo(ReuseLines, MaxLines)}

InitReuse ==
    /\ opIn \in [first : ReuseSources, second : ReuseSources]
    /\ opOut = [calls |-> 0, temp |-> EmptyMap]
    /\ heap = <<>>
    /\ value = ZeroOf(Config)
    /\ globalDecodeOpt \in DecodeOption
    /\ osEnv \in {EmptyMap, HOST :> <<"e", "h">>}
    /\ merged = ZeroOf(Config)
    /\ pc = "reuse"
    /\ IdleGathuk /\ IdleLoad /\ IdleJson /\ IdleNumber /\ IdleMerge

\* codec.Decode(first, &a) on a new codec with the options applied
DecodeFirst ==
    /\ pc = "reuse"
    /\ \E r \in {dotenvDecode(Config, NewCodec("dotenv").temp, globalDecodeOpt, opIn.first,
                              osEnv, ZeroOf(Config))} :
         /\ r.err = FALSE
         /\ osEnv' = r.env
         /\ opOut' = [calls |-> 1, temp |-> r.temp]
    /\ pc' = "first"
    /\ UNCHANGED <<ConfigFiles, value, globalDecodeOpt, ret, ops, call, used, requested,
                   merged, allOk, loadVars, opIn, heap, jsonVars, numberVars, mergeVars>>

\* codec.Decode(second, &b) on the same codec, b a zero record
DecodeSecond ==
    /\ pc = "first"
    /\ \E r \in {dotenvDecode(Config, opOut.temp, globalDecodeOpt, opIn.second, osEnv,
                              ZeroOf(Config))} :
         /\ value' = r.val
         /\ osEnv' = r.env
         /\ ret' = IF r.err THEN "error" ELSE "nil"
         /\ opOut' = [calls |-> 2, temp |-> r.temp, env |-> osEnv]
    /\ pc' = "second"
    /\ UNCHANGED <<ConfigFiles, globalDecodeOpt, ops, call, used, requested,
                   merged, allOk, loadVars, opIn, heap, jsonVars, numberVars, mergeVars>>

NextReuse ==
    \/ DecodeFirst
    \/ DecodeSecond

SpecReuse == InitReuse /\ [][NextReuse]_vars

\* the names that the input and the environment of the second Decode provide
ProvidedToSecond ==
    DOMAIN FileTable(opIn.second)
    \cup (IF globalDecodeOpt.AutomaticEnv
          THEN DOMAIN decodeLines(Split(opIn.second, "\n"), 1, EmptyMap, opOut.env,
                                  globalDecodeOpt).env
          ELSE {})

\* C20: the table is new for every Decode: in the second Decode on a codec a
\* name that neither its input nor its environment provides supplies no
\* value, so the leaf of that name in a zero record stays zero
C20_TableFresh ==
    (pc = "second" /\ ret = "nil")
        => \A n \in LeafNames \ ProvidedToSecond :
              Leaf(value, n) = Leaf(ZeroOf(Config), n)

(***************************************************************************)
(* Goroutines that call RegisterCodec, Encoder and Decoder on one          *)
(* DefaultCodecRegistry.  A goroutine is at "start", holds the mutex       *)
(* ("locked"), is in the middle of its access to the map ("writing",       *)
(* "reading"), has written ("written") or is "done".                       *)
(***************************************************************************)

NumGoroutines == 3

Goroutines == 1..NumGoroutines

\* the calls of the goroutines
RegistryCalls ==
    {[op |-> "RegisterCodec", format |-> <<"Y", "A", "M", "L">>, codec |-> NewCodec("yaml")],
     [op |-> "RegisterCodec", format |-> ENV, codec |-> NewCodec("custom")],
     [op |-> "Decoder", format |-> YAML, codec |-> NewCodec("none")],
     [op |-> "Encoder", format |-> ENV, codec |-> NewCodec("none")]}

InitRegistry ==
    /\ opIn \in [Goroutines -> RegistryCalls]
    /\ opOut = [mu |-> 0,
                codecs |-> RegisteredCodecs,
                at |-> [g \in Goroutines |-> "start"],
                snap |-> [g \in Goroutines |-> RegisteredCodecs],
                raced |-> [g \in Goroutines |-> FALSE],
                result |-> [g \in Goroutines |-> "none"]]
    /\ heap = <<>>
    /\ value = ZeroOf(Config) /\ globalDecodeOpt = ZeroDecodeOption /\ osEnv = EmptyMap
    /\ merged = ZeroOf(Config)
    /\ pc = "registry"
    /\ IdleGathuk /\ IdleLoad /\ IdleJson /\ IdleNumber /\ IdleMerge

outsideRegistry ==
    <<gathukVars, pc, loadVars, opIn, heap, jsonVars, numberVars, mergeVars>>

\* the goroutines that are in the middle of an access of the kind
Accessing(kind) == {h \in Goroutines : opOut.at[h] = kind}

\* RegisterCodec: dcr.mu.Lock()
RegisterLock(g) ==
    /\ pc = "registry" /\ opIn[g].op = "RegisterCodec" /\ opOut.at[g] = "start"
    /\ opOut.mu = 0
    /\ opOut' = [opOut EXCEPT !.mu = g, !.at[g] = "locked"]
    /\ UNCHANGED outsideRegistry

\* RegisterCodec: the write dcr.codecs[format] = codec begins; the lookups
\* that are reading now race with it
RegisterWrite(g) ==
    /\ pc = "registry" /\ opOut.at[g] = "locked"
    /\ opOut' = [opOut EXCEPT !.at[g] = "writing",
                              !.raced = [h \in Goroutines |->
                                            @[h] \/ h \in Accessing("reading")]]
    /\ UNCHANGED outsideRegistry

\* RegisterCodec: the write ends
RegisterWritten(g) ==
    /\ pc = "registry" /\ opOut.at[g] = "writing"
    /\ opOut' = [opOut EXCEPT !.at[g] = "written",
                              !.codecs = (ToLower(opIn[g].format) :> opIn[g].codec) @@ @]
    /\ UNCHANGED outsideRegistry

\* RegisterCodec: the deferred dcr.mu.Unlock()
RegisterUnlock(g) ==
    /\ pc = "registry" /\ opOut.at[g] = "written"
    /\ opOut' = [opOut EXCEPT !.mu = 0, !.at[g] = "done"]
    /\ UNCHANGED outsideRegistry

\* Encoder, Decoder: codec(format) begins to read dcr.codecs[format]; it
\* takes no lock
LookupRead(g) ==
    /\ pc = "registry" /\ opIn[g].op \in {"Encoder", "Decoder"} /\ opOut.at[g] = "start"
    /\ opOut' = [opOut EXCEPT !.at[g] = "reading",
                              !.snap[g] = opOut.codecs,
                              !.raced[g] = Accessing("writing") # {}]
    /\ UNCHANGED outsideRegistry

\* what a lookup of the format in the map gives
LookupResult(codecs, format) ==
    IF ~codec(codecs, format).found THEN "missing"
    ELSE IF codec(codecs, format).builtin THEN "builtin"
    ELSE "registered"

\* Encoder, Decoder: the read ends and the call returns.  A read that raced
\* with a write is a data race: the runtime may stop the program ("fatal
\* error: concurrent map read and map write"), or the read sees the map
\* before or after the write
LookupReturn(g) ==
    /\ pc = "registry" /\ opOut.at[g] = "reading"
    /\ \E r \in {LookupResult(opOut.codecs, opIn[g].format)}
                \cup (IF opOut.raced[g]
                      THEN {"fatal", LookupResult(opOut.snap[g], opIn[g].format)}
                      ELSE {}) :
         opOut' = [opOut EXCEPT !.at[g] = "done", !.result[g] = r]
    /\ UNCHANGED outsideRegistry

NextRegistry ==
    \E g \in Goroutines :
        \/ RegisterLock(g)
        \/ RegisterWrite(g)
        \/ RegisterWritten(g)
        \/ RegisterUnlock(g)
        \/ LookupRead(g)
        \/ LookupReturn(g)

SpecRegistry == InitRegistry /\ [][NextRegistry]_vars

\* C21: a goroutine reads or writes the map of the registry only while it
\* holds the mutex, so no lookup reads the map while a registration writes
C21_MapUnderMutex ==
    /\ \A g \in Goroutines :
          opOut.at[g] \in {"reading", "writing"} => opOut.mu = g
    /\ ~(Accessing("reading") # {} /\ Accessing("writing") # {})

\* C22: merging a record into itself, the record being both the destination
\* and the source, leaves every field of it as it was
C22_MergeIdempotent ==
    (pc = "merged" /\ mergeDst = mergeSrc) => mergeOut = mergeDst

\* the record with every field set was merged into itself
C22_Witness ==
    /\ pc = "merged" /\ mergeDst = FullSettings /\ mergeSrc = FullSettings
    /\ mergeOut = FullSettings

(***************************************************************************)
(* Parser on token sequences that are and that are not one JSON value.     *)
(***************************************************************************)

\* the bound on the length of the token sequences
MaxTokens == 5

TokenSamples ==
    {Token("BraceOpen", <<"{">>), Token("BraceClose", <<"}">>),
     Token("BracketOpen", <<"[">>), Token("BracketClose", <<"]">>),
     Token("Colon", <<":">>), Token("Comma", <<",">>),
     Token("String", <<"a">>), Token("Number", <<"1">>)}

\* {"a":1,}  [1,]  {"a":1  [1,2  1 2  {"a":1} {"b":2}  {"a":1}
ParserTexts ==
    {<<"{">> \o Quoted(<<"a">>) \o <<":", "1", ",", "}">>,
     <<"[", "1", ",", "]">>,
     <<"{">> \o Quoted(<<"a">>) \o <<":", "1">>,
     <<"[", "1", ",", "2">>,
     <<"1", " ", "2">>,
     <<"{">> \o Quoted(<<"a">>) \o <<":", "1", "}", " ", "{">> \o Quoted(<<"b">>)
        \o <<":", "2", "}">>,
     <<"{">> \o Quoted(<<"a">>) \o <<":", "1", "}">>}

ParserInputs ==
    SeqsUpTo(TokenSamples, MaxTokens)
        \cup {Tokenize(text, BufferCap(Len(text))).tokens : text \in ParserTexts}

InitParser ==
    /\ opIn \in ParserInputs
    /\ opOut = NoOutput /\ heap = <<>>
    /\ pc = "parser"
    /\ value = ZeroOf(Config) /\ globalDecodeOpt = ZeroDecodeOption /\ osEnv = EmptyMap
    /\ merged = ZeroOf(Config)
    /\ IdleGathuk /\ IdleLoad /\ IdleJson /\ IdleNumber /\ IdleMerge

\* node, err := Parser(tokens)
ParseInput ==
    /\ pc = "parser"
    /\ opOut' = Parser(opIn)
    /\ pc' = "parserDone"
    /\ UNCHANGED <<opIn, heap, gathukVars, loadVars, jsonVars, numberVars, mergeVars>>

NextParser == ParseInput

SpecParser == InitParser /\ [][NextParser]_vars

\* the tokens that Parser read for the tree that it returned
Consumed ==
    SubSeq(opIn, 1, IF opOut.current - 1 < Len(opIn) THEN opOut.current - 1 ELSE Len(opIn))

\* a comma stands right before a closing brace or bracket
HasTrailingComma(tokens) ==
    \E i \in 1..(Len(tokens) - 1) :
        /\ tokens[i].Type = "Comma"
        /\ tokens[i + 1].Type \in {"BraceClose", "BracketClose"}

\* C23: Parser answers a trailing comma with an error: the tokens of a tree
\* that it returns have no comma right before a closing brace or bracket
C23_NoTrailingComma ==
    (pc = "parserDone" /\ ~opOut.err) => ~HasTrailingComma(Consumed)

\* the number of tokens of the types in tokens
CountOf(tokens, types) == Cardinality({i \in 1..Len(tokens) : tokens[i].Type \in types})

\* more objects and arrays are opened than are closed
Unclosed(tokens) ==
    CountOf(tokens, {"BraceOpen", "BracketOpen"})
        > CountOf(tokens, {"BraceClose", "BracketClose"})

\* C24: Parser answers an object or an array that is left open with an
\* error, never with a tree: the tokens of a tree that it returns close
\* everything that they open
C24_NoUnclosed ==
    (pc = "parserDone" /\ ~opOut.err) => ~Unclosed(Consumed)

\* C30: when Parser returns a tree it has consumed every token: a sequence
\* with tokens after the first value is answered with an error
C30_WholeSequence ==
    (pc = "parserDone" /\ ~opOut.err) => opOut.current > Len(opIn)

(***************************************************************************)
(* Empty and blank input to the tree format: Parser, Decode and LoadConfig.*)
(***************************************************************************)

\* the bound on the length of the blank inputs
MaxBlank == 3

\* the inputs of no byte and of whitespace only
Blanks == SeqsUpTo({" ", "\t", "\n", "\r"}, MaxBlank)

InitEmpty ==
    /\ src \in Blanks
    /\ opIn \in ReaderKinds
    /\ opOut = NoOutput /\ heap = <<>>
    /\ value \in {ZeroOf(Config), Populated}
    /\ globalDecodeOpt = ZeroDecodeOption
    /\ osEnv = EmptyMap
    /\ merged = value
    /\ before = NoBefore
    /\ pc = "empty"
    /\ IdleGathuk /\ IdleJson /\ IdleNumber /\ IdleMerge

\* Parser(tokens) on the tokens of the input, of which there are none
ParseEmpty ==
    /\ pc = "empty"
    /\ opOut' = Parser(Tokenize(src, BufferCap(Len(src))).tokens)
    /\ pc' = "emptyParsed"
    /\ UNCHANGED <<opIn, heap, gathukVars, loadVars, jsonVars, numberVars, mergeVars>>

\* the json Codec's Decode(by, &value) on the bytes that a buffer filled
\* from the source gives
DecodeEmpty ==
    /\ pc = "empty"
    /\ \E conv \in FloatToIntConversions :
          opOut' = jsonDecode(Config, bufferBytes(src, opIn), value, conv)
    /\ pc' = "emptyDecoded"
    /\ UNCHANGED <<opIn, heap, gathukVars, loadVars, jsonVars, numberVars, mergeVars>>

\* g.LoadConfig(src, "json")
LoadEmpty ==
    /\ pc = "empty"
    /\ LoadConfig(src, opIn, JSON)
    /\ before' = [value |-> value, osEnv |-> osEnv]
    /\ pc' = "emptyLoaded"
    /\ UNCHANGED <<src, jsonVars, numberVars, mergeVars, opVars>>

NextEmpty == ParseEmpty \/ DecodeEmpty \/ LoadEmpty

SpecEmpty == InitEmpty /\ [][NextEmpty]_vars

\* C25: empty input to the tree format is an error at every level: Parser on
\* no token, the codec's Decode on no byte or on whitespace only, and
\* LoadConfig of an empty json source each return an error
C25_EmptyIsError ==
    /\ pc \in {"emptyParsed", "emptyDecoded"} => opOut.err
    /\ pc = "emptyLoaded" => ret = "error"

(***************************************************************************)
(* Tokenize on keywords and on runs of the bytes of numbers, for input     *)
(* slices with and without spare capacity.                                 *)
(***************************************************************************)

\* the bound on the length of the runs
MaxRun == 4

RunBytes == {"1", "9", ".", "e", "E", "+", "-"}

\* true  null  1  [false]  and some longer numbers
TokenizeTexts ==
    {<<"t", "r", "u", "e">>, <<"n", "u", "l", "l">>, <<"1">>,
     <<"[", "f", "a", "l", "s", "e", "]">>,
     <<"1", "e", "9", "9", "9">>, <<"-", "1", ".", "9", "e", "+", "1">>,
     <<"1", ".", "9", "E", "-", "1">>, <<"1", "9", ".", "9", "1">>}

TokenizeInputs == (SeqsUpTo(RunBytes, MaxRun) \ {<<>>}) \cup TokenizeTexts

\* cap(input) - len(input): none for a full slice, up to what a buffer leaves
SpareCapacity == {0, 4, 8, 64}

InitTokenize ==
    /\ \E input \in TokenizeInputs, spare \in SpareCapacity :
          opIn = [b |-> input, cap |-> Len(input) + spare]
    /\ opOut = NoOutput /\ heap = <<>>
    /\ pc = "tokenize"
    /\ value = ZeroOf(Config) /\ globalDecodeOpt = ZeroDecodeOption /\ osEnv = EmptyMap
    /\ merged = ZeroOf(Config)
    /\ IdleGathuk /\ IdleLoad /\ IdleJson /\ IdleNumber /\ IdleMerge

\* tokens, err := Tokenize(input)
TokenizeInput ==
    /\ pc = "tokenize"
    /\ opOut' = Tokenize(opIn.b, opIn.cap)
    /\ pc' = "tokenized"
    /\ UNCHANGED <<opIn, heap, gathukVars, loadVars, jsonVars, numberVars, mergeVars>>

NextTokenize == TokenizeInput

SpecTokenize == InitTokenize /\ [][NextTokenize]_vars

\* C26: Tokenize ends with tokens or with an error for every input and never
\* slices past the end of it: the lookahead of 8 bytes for a keyword does not
\* take it out of the bounds of the slice
C26_TokenizeInBounds ==
    pc = "tokenized" => ~opOut.panic

\* s is: an optional '-', digits, optionally '.' and digits, optionally 'e'
\* or 'E' with an optional sign and digits; at least one digit in each place
IsNumberLexeme(s) ==
    LET i0 == IF s # <<>> /\ s[1] = "-" THEN 2 ELSE 1
        i1 == SpanDigits(s, i0)
        dot == i1 <= Len(s) /\ s[i1] = "."
        i2 == IF dot THEN SpanDigits(s, i1 + 1) ELSE i1
        exp == i2 <= Len(s) /\ s[i2] \in {"e", "E"}
        i3 == IF exp /\ i2 + 1 <= Len(s) /\ s[i2 + 1] \in {"+", "-"}
              THEN i2 + 2 ELSE i2 + 1
        i4 == IF exp THEN SpanDigits(s, i3) ELSE i2
    IN /\ i1 > i0
       /\ dot => i2 > i1 + 1
       /\ exp => i4 > i3
       /\ i4 = Len(s) + 1

\* the input is one run of the bytes of numbers
IsRun(s) == s # <<>> /\ \A i \in 1..Len(s) : s[i] \in RunBytes

\* C27: Tokenize accepts a run of digits, '.', 'e', 'E' and signs as a number
\* exactly when the run is a number lexeme, and rejects every other run
C27_NumberGrammar ==
    (pc = "tokenized" /\ IsRun(opIn.b) /\ ~opOut.panic)
        => IF IsNumberLexeme(opIn.b)
           THEN ~opOut.err /\ opOut.tokens = <<Token("Number", opIn.b)>>
           ELSE opOut.err

(***************************************************************************)
(* A conversion of a tree into a record that fails inside one field.       *)
(***************************************************************************)

\* type Endpoint struct { Host string; Port int }
Endpoint ==
    [kind |-> "struct", name |-> <<"E", "n", "d", "p", "o", "i", "n", "t">>,
     fields |-> <<Field("Host", <<"H", "o", "s", "t">>, StringType, <<>>, <<>>),
                  Field("Port", <<"P", "o", "r", "t">>, IntType, <<>>, <<>>)>>]

\* type Service struct { Name string; Tags []string; Labels map[string]int;
\*                       Endpoint Endpoint }
Service ==
    [kind |-> "struct", name |-> <<"S", "e", "r", "v", "i", "c", "e">>,
     fields |-> <<Field("Name", <<"N", "a", "m", "e">>, StringType, <<>>, <<>>),
                  Field("Tags", <<"T", "a", "g", "s">>,
                        [kind |-> "slice", elem |-> StringType], <<>>, <<>>),
                  Field("Labels", <<"L", "a", "b", "e", "l", "s">>,
                        [kind |-> "map", key |-> StringType, elem |-> IntType],
                        <<>>, <<>>),
                  Field("Endpoint", <<"E", "n", "d", "p", "o", "i", "n", "t">>,
                        Endpoint, <<>>, <<>>)>>]

\* the record that holds a value in every field
FullService ==
    [Name |-> <<"o", "l", "d">>,
     Tags |-> [nil |-> FALSE, elems |-> << <<"t">> >>],
     Labels |-> [nil |-> FALSE, m |-> (<<"k">> :> IntToBig(7))],
     Endpoint |-> [Host |-> <<"h">>, Port |-> IntToBig(80)]]

\* for every key of the object the nodes that a tree may give it: nodes that
\* convert, and nodes that fail in an item, in a key or in a sub-field after
\* another one converted
ServiceMembers ==
    [name |-> <<StringNode(<<"n", "e", "w">>), BooleanNode(TRUE)>>,
     tags |-> <<ArrayNode(<<StringNode(<<"a">>), StringNode(<<"b">>)>>),
                ArrayNode(<<StringNode(<<"a">>), BooleanNode(TRUE)>>)>>,
     labels |-> <<ObjectNode(<<"k">> :> NumberNode(Num(<<"1">>))),
                  ObjectNode((<<"k">> :> NumberNode(Num(<<"1">>)))
                               @@ (<<"q">> :> StringNode(<<"x">>)))>>,
     endpoint |-> <<ObjectNode((<<"h", "o", "s", "t">> :> StringNode(<<"n">>))
                                 @@ (<<"p", "o", "r", "t">> :> NumberNode(Num(<<"1">>)))),
                    ObjectNode((<<"h", "o", "s", "t">> :> StringNode(<<"n">>))
                                 @@ (<<"p", "o", "r", "t">> :> StringNode(<<"b", "a", "d">>))),
                    ObjectNode(<<"p", "o", "r", "t">> :> StringNode(<<"b", "a", "d">>))>>]

\* the key of the object for a key of ServiceMembers
MemberKey ==
    [name |-> <<"n", "a", "m", "e">>, tags |-> <<"t", "a", "g", "s">>,
     labels |-> <<"l", "a", "b", "e", "l", "s">>,
     endpoint |-> <<"e", "n", "d", "p", "o", "i", "n", "t">>]

\* a choice gives every key the index of one of its nodes, or 0 for none
ServiceChoices ==
    {c \in [DOMAIN ServiceMembers -> 0..3] :
        \A n \in DOMAIN ServiceMembers : c[n] <= Len(ServiceMembers[n])}

\* the object of the choice c
ServiceObject(c) ==
    ObjectNode([k \in {MemberKey[n] : n \in {x \in DOMAIN c : c[x] > 0}} |->
                  LET n == CHOOSE x \in DOMAIN c : MemberKey[x] = k
                  IN ServiceMembers[n][c[n]]])

InitAtomic ==
    /\ opIn \in [choice : ServiceChoices, cur : {ZeroOf(Service), FullService},
                 conv : FloatToIntConversions]
    /\ opOut = NoOutput /\ heap = <<>>
    /\ pc = "atomic"
    /\ value = ZeroOf(Config) /\ globalDecodeOpt = ZeroDecodeOption /\ osEnv = EmptyMap
    /\ merged = ZeroOf(Config)
    /\ IdleGathuk /\ IdleLoad /\ IdleJson /\ IdleNumber /\ IdleMerge

\* err := c.ASTToStruct(ast, &dst) for a dst that holds opIn.cur
ConvertTree ==
    /\ pc = "atomic"
    /\ opOut' = ASTToStruct(ServiceObject(opIn.choice), Service, opIn.cur, opIn.conv)
    /\ pc' = "converted"
    /\ UNCHANGED <<opIn, heap, gathukVars, loadVars, jsonVars, numberVars, mergeVars>>

NextAtomic == ConvertTree

SpecAtomic == InitAtomic /\ [][NextAtomic]_vars

\* converting the node that the object has for the field sf fails
FailsIn(sf) ==
    /\ jsonNameOf(sf) \in DOMAIN ServiceObject(opIn.choice).v
    /\ nodeToValue(ServiceObject(opIn.choice).v[jsonNameOf(sf)], sf.type,
                   opIn.cur[sf.id], TRUE, opIn.conv).err

\* C28: when the conversion of the value for a field fails, the field holds
\* the complete value that it had before the decode
C28_FieldNotPartial ==
    (pc = "converted" /\ opOut.err)
        => \A i \in 1..Len(Service.fields) :
              (FailsIn(Service.fields[i]) /\ \A j \in 1..(i - 1) : ~FailsIn(Service.fields[j]))
                  => opOut.val[Service.fields[i].id] = opIn.cur[Service.fields[i].id]

(***************************************************************************)
(* The errors that arise inside the codecs and what the caller gets.       *)
(***************************************************************************)

\* the targets of the line-format Decode: the record type and types of the
\* kinds that the scan has no case for
TargetTypes ==
    [struct |-> Config, int |-> IntType, string |-> StringType, bool |-> [kind |-> "bool"],
     slice |-> [kind |-> "slice", elem |-> StringType],
     ptr |-> [kind |-> "ptr", elem |-> Config]]

\* a node of a type that is none of the six node types of the package
UnknownNode == [t |-> "Unknown"]

\* trees without and with an unknown node, at the root and below it
SerializeTrees ==
    <<StringNode(<<"a">>),
      ArrayNode(<<NullNode, BooleanNode(TRUE)>>),
      ObjectNode(<<"k">> :> ArrayNode(<<>>)),
      UnknownNode,
      ArrayNode(<<UnknownNode>>),
      ArrayNode(<<StringNode(<<"a">>), UnknownNode>>),
      ObjectNode(<<"k">> :> UnknownNode),
      ObjectNode((<<"k">> :> NullNode) @@ (<<"q">> :> ArrayNode(<<UnknownNode>>)))>>

RECURSIVE HasUnknown(_)
\* the tree holds an unknown node
HasUnknown(node) ==
    CASE node.t = "Array" -> \E i \in 1..Len(node.v) : HasUnknown(node.v[i])
      [] node.t = "Object" -> \E k \in DOMAIN node.v : HasUnknown(node.v[k])
      [] OTHER -> node.t = "Unknown"

\* the error of serializeNode(buf, node, depth): the calls for the six node
\* types are statements whose result is not looked at, and the default case
\* returns an error
serializeNodeError(node) ==
    CASE node.t \in {"Object", "Array", "String", "Number", "Boolean", "Null"} -> FALSE
      [] OTHER -> TRUE

\* the error of serialize(node)
serializeError(node) == serializeNodeError(node)

InitSwallow ==
    /\ \/ opIn \in [op : {"decode"}, target : DOMAIN TargetTypes, lines : Sources,
                    do : DecodeOption]
       \/ opIn \in [op : {"serialize"}, tree : DOMAIN SerializeTrees]
    /\ opOut = NoOutput /\ heap = <<>>
    /\ pc = "swallow"
    /\ value = ZeroOf(Config) /\ globalDecodeOpt = ZeroDecodeOption /\ osEnv = EmptyMap
    /\ merged = ZeroOf(Config)
    /\ IdleGathuk /\ IdleLoad /\ IdleJson /\ IdleNumber /\ IdleMerge

\* err := c.Decode(lines, &dst) on a new line-format codec with the options
\* do, for a zero dst of the target type
DecodeLinesInto ==
    /\ pc = "swallow" /\ opIn.op = "decode"
    /\ opOut' = dotenvDecode(TargetTypes[opIn.target], EmptyMap, opIn.do, opIn.lines,
                             EmptyMap, ZeroOf(TargetTypes[opIn.target]))
    /\ pc' = "swallowed"
    /\ UNCHANGED <<opIn, heap, gathukVars, loadVars, jsonVars, numberVars, mergeVars>>

\* _, err := c.serialize(tree)
SerializeTree ==
    /\ pc = "swallow" /\ opIn.op = "serialize"
    /\ opOut' = [err |-> serializeError(SerializeTrees[opIn.tree])]
    /\ pc' = "swallowed"
    /\ UNCHANGED <<opIn, heap, gathukVars, loadVars, jsonVars, numberVars, mergeVars>>

NextSwallow == DecodeLinesInto \/ SerializeTree

SpecSwallow == InitSwallow /\ [][NextSwallow]_vars

\* C29: no error inside a codec operation is swallowed: the line-format
\* Decode returns an error when its target is of a kind that the scan does
\* not support and when it gave up because a write to the process
\* environment failed, and serialize returns an error for a tree that holds
\* an unknown node
C29_NoErrorSwallowed ==
    pc = "swallowed"
        => IF opIn.op = "decode"
           THEN (opIn.target # "struct" \/ ~opOut.scanned) => opOut.err
           ELSE HasUnknown(SerializeTrees[opIn.tree]) => opOut.err

====
